---- MODULE Spec2Model ----
(***************************************************************************)
(* Borrow / reservation / inventory engine of the library management       *)
(* system: models/book.py, models/borrow.py, models/reservation.py,        *)
(* models/user.py and the routes of app.py that drive them.                *)
(*                                                                         *)
(* Time is counted in minutes.  Rows of the borrows and reservations       *)
(* tables are the elements of two sequences; the index of a row is its id. *)
(***************************************************************************)
EXTENDS Integers, Sequences, FiniteSets, TLC

\* ---------------------------------------------------------------- bounds
NumUsers == 2
NumBooks == 1
MaxBorrows == 2
MaxReservations == 2
MaxTicks == 1
MaxCopies == 2
\* The loan-limit specification: one requester, one more title than the limit.
LimitUsers == 1
LimitBooks == 6
LimitLoans == 5
\* The fee specification: a loan is returned from MaxEarlyMinutes before to
\* MaxDelayMinutes after its due time.
MaxEarlyMinutes == 60
MaxDelayMinutes == 4500

Users == 1..NumUsers
Books == 1..NumBooks

\* ------------------------------------------------- configuration (Config)
MAX_BORROW_LIMIT == 5
BORROW_DURATION_DAYS == 14
MAX_RENEWAL_COUNT == 1
PENDING_PICKUP_HOURS == 48
GRACE_PERIOD_MINUTES == 60
LATE_FEE_HOURLY == 2000
LATE_FEE_DAILY == 10000
HOLD_HOURS == 48
MINOR_DAMAGE_PERCENT == 20
MAJOR_DAMAGE_SURCHARGE == 15000
LOST_SURCHARGE == 20000
MinutesPerHour == 60
MinutesPerDay == 1440

NULL == 0 - 1

\* Inputs of the handlers.
Conditions == {"good", "minor_damage"}
BookValues == {100000}
ExtensionDays == {7}
\* The condition codes and item values a staff member can post with a return:
\* the four codes of the form, the short names, and codes no branch knows.
PostedConditions == {"good", "minor", "minor_damage", "major", "major_damage",
                     "lost", "damaged", ""}
PostedValues == {0, 45500, 100000}
\* The clock advances in steps that carry it just past a 48 h pickup or hold
\* deadline set at the previous instant.
TickStep == PENDING_PICKUP_HOURS * MinutesPerHour + 1

\* books, borrows, reservations, users, violations_history (the fine records):
\* the tables of the store.  now: the clock.  calls: for each requester, the position and the local variables of
\* the handler it is running when handlers are interleaved statement by
\* statement.
VARIABLES books, borrows, reservations, users, violations_history, now, calls

vars == <<books, borrows, reservations, users, violations_history, now, calls>>

\* The persisted store, as one value the handlers transform.
DB == [books |-> books, borrows |-> borrows,
       reservations |-> reservations, users |-> users,
       violations_history |-> violations_history]

\* What a handler hands back: the store it leaves and its (success, message).
Ok(st, msg) == [st |-> st, outcome |-> "ok", msg |-> msg]
Fail(st, msg) == [st |-> st, outcome |-> "fail", msg |-> msg]
Raised(st, msg) == [st |-> st, outcome |-> "raised", msg |-> msg]

\* ------------------------------------------------------------ Fee Calculator
LateFeeWithoutGrace(due_date, return_date) ==
  IF return_date <= due_date THEN 0
  ELSE LET total_minutes == return_date - due_date IN
       IF total_minutes <= GRACE_PERIOD_MINUTES THEN 0
       ELSE IF total_minutes < 24 * MinutesPerHour
            THEN ((total_minutes \div MinutesPerHour)
                  + (IF total_minutes % MinutesPerHour > 0 THEN 1 ELSE 0))
                 * LATE_FEE_HOURLY
            ELSE ((total_minutes \div MinutesPerDay)
                  + (IF total_minutes % MinutesPerDay > 0 THEN 1 ELSE 0))
                 * LATE_FEE_DAILY

LateFeeDailyFromHalfDay(due_date, return_date) ==
  IF return_date <= due_date THEN 0
  ELSE LET total_minutes == return_date - due_date IN
       IF total_minutes <= GRACE_PERIOD_MINUTES THEN 0
       ELSE LET effective_minutes == total_minutes - GRACE_PERIOD_MINUTES IN
            IF effective_minutes < 12 * MinutesPerHour
            THEN ((effective_minutes \div MinutesPerHour)
                  + (IF effective_minutes % MinutesPerHour > 0 THEN 1 ELSE 0))
                 * LATE_FEE_HOURLY
            ELSE ((effective_minutes \div MinutesPerDay)
                  + (IF effective_minutes % MinutesPerDay > 0 THEN 1 ELSE 0))
                 * LATE_FEE_DAILY

calculate_late_fee(due_date, return_date) ==
  IF return_date <= due_date THEN 0
  ELSE LET total_minutes == return_date - due_date IN
       IF total_minutes <= GRACE_PERIOD_MINUTES THEN 0
       ELSE LET effective_minutes == total_minutes - GRACE_PERIOD_MINUTES IN
            IF effective_minutes < 24 * MinutesPerHour
            THEN ((effective_minutes \div MinutesPerHour)
                  + (IF effective_minutes % MinutesPerHour > 0 THEN 1 ELSE 0))
                 * LATE_FEE_HOURLY
            ELSE ((effective_minutes \div MinutesPerDay)
                  + (IF effective_minutes % MinutesPerDay > 0 THEN 1 ELSE 0))
                 * LATE_FEE_DAILY

DamageFeeOneSurcharge(condition, book_value) ==
  IF condition = "good" THEN 0
  ELSE IF condition = "minor_damage" THEN (book_value * MINOR_DAMAGE_PERCENT) \div 100
  ELSE IF condition = "major_damage" THEN book_value + MAJOR_DAMAGE_SURCHARGE
  ELSE IF condition = "lost" THEN book_value + MAJOR_DAMAGE_SURCHARGE
  ELSE 0

calculate_damage_fee(condition, book_value) ==
  IF condition = "good" THEN 0
  ELSE IF condition = "minor_damage" THEN (book_value * MINOR_DAMAGE_PERCENT) \div 100
  ELSE IF condition = "major_damage" THEN book_value + MAJOR_DAMAGE_SURCHARGE
  ELSE IF condition = "lost" THEN book_value + LOST_SURCHARGE
  ELSE 0

\* --------------------------------------------------------- Inventory Ledger
\* Book.update_available_copies on a loaded Book object whose fields are
\* available_copies and total_copies: the value it persists.
UpdateAvailableNoUpperClamp(available_copies, total, change) ==
  LET v == available_copies + change IN
  IF v < 0 THEN 0 ELSE v

update_available_copies(available_copies, total, change) ==
  LET v == available_copies + change IN
  IF v < 0 THEN 0 ELSE IF v > total THEN total ELSE v

\* Book.get_by_id, update_available_copies(change), and the store after it.
AdjustAvailable(st, book_id, change) ==
  [st EXCEPT !.books[book_id].available_copies =
     update_available_copies(@, st.books[book_id].total_copies, change)]

increment_borrow_count(st, book_id) ==
  [st EXCEPT !.books[book_id].borrow_count = @ + 1]

\* --------------------------------------------------------- Reservation Queue
WaitingOf(st, book_id) ==
  {i \in DOMAIN st.reservations :
     /\ st.reservations[i].book_id = book_id
     /\ st.reservations[i].status = "waiting"}

has_active_reservations(st, book_id) == WaitingOf(st, book_id) # {}

GetLastInQueue(st, book_id) ==
  LET W == WaitingOf(st, book_id) IN
  IF W = {} THEN 0
  ELSE CHOOSE i \in W : \A j \in W :
         \/ st.reservations[i].queue_position > st.reservations[j].queue_position
         \/ /\ st.reservations[i].queue_position = st.reservations[j].queue_position
            /\ i >= j

\* The waiting row of lowest queue_position (of lowest id among equals), 0 for None.
get_next_in_queue(st, book_id) ==
  LET W == WaitingOf(st, book_id) IN
  IF W = {} THEN 0
  ELSE CHOOSE i \in W : \A j \in W :
         \/ st.reservations[i].queue_position < st.reservations[j].queue_position
         \/ /\ st.reservations[i].queue_position = st.reservations[j].queue_position
            /\ i <= j

MarkReadyReleasingCopy(st, i, hold_hours, t) ==
  IF st.reservations[i].status # "waiting"
  THEN Fail(st, "Only waiting reservations can be marked ready")
  ELSE Ok([st EXCEPT !.reservations[i].status = "ready",
                     !.reservations[i].hold_until = t + hold_hours * MinutesPerHour,
                     !.books[st.reservations[i].book_id].available_copies = @ + 1],
          "Reservation marked as ready and notification sent")

mark_ready(st, i, hold_hours, t) ==
  IF st.reservations[i].status # "waiting"
  THEN Fail(st, "Only waiting reservations can be marked ready")
  ELSE Ok([st EXCEPT !.reservations[i].status = "ready",
                     !.reservations[i].hold_until = t + hold_hours * MinutesPerHour],
          "Reservation marked as ready and notification sent")

\* Where the notification side effect of mark_ready may fail: nowhere, in the
\* INSERT of Notification.create, or after the db.commit() of
\* Notification.create (Notification.get_by_id, SystemLog.add).
NotificationFaults == {"none", "insert", "after_commit"}

\* mark_ready with a fault of the notification side effect. The except
\* branch rolls back and returns False; what Notification.create committed
\* before the fault stays.
mark_ready_under(st, i, hold_hours, t, fault) ==
  IF st.reservations[i].status # "waiting"
  THEN Fail(st, "Only waiting reservations can be marked ready")
  ELSE LET ready == [st EXCEPT
             !.reservations[i].status = "ready",
             !.reservations[i].hold_until = t + hold_hours * MinutesPerHour]
       IN CASE fault = "none" ->
                 Ok(ready, "Reservation marked as ready and notification sent")
            [] fault = "insert" ->
                 Fail(st, "Failed to mark reservation as ready")
            [] fault = "after_commit" ->
                 Fail(ready, "Failed to mark reservation as ready")

MaxWaitingPosition(st, book_id) ==
  LET W == WaitingOf(st, book_id) IN
  IF W = {} THEN 0
  ELSE LET m == CHOOSE i \in W : \A j \in W :
                  st.reservations[i].queue_position >= st.reservations[j].queue_position
       IN st.reservations[m].queue_position

Reservation_create(st, user_id, book_id, t) ==
  IF st.books[book_id].available_copies > 0
  THEN Fail(st, "Book is available for immediate borrowing")
  ELSE IF \E i \in WaitingOf(st, book_id) : st.reservations[i].user_id = user_id
  THEN Fail(st, "You already have a reservation for this book")
  ELSE Ok([st EXCEPT !.reservations = Append(@,
             [user_id |-> user_id, book_id |-> book_id,
              status |-> "waiting", hold_until |-> NULL,
              queue_position |-> MaxWaitingPosition(st, book_id) + 1])],
          "Book reserved successfully")

\* The cascade shared by Reservation.cancel (of a ready row) and mark_expired.
ReleaseHeldCopy(st, book_id, t) ==
  LET next_reservation == get_next_in_queue(st, book_id) IN
  IF next_reservation # 0
  THEN LET r == mark_ready(st, next_reservation, HOLD_HOURS, t) IN
       IF r.outcome = "ok" THEN r.st
       ELSE AdjustAvailable(st, book_id, 1)
  ELSE AdjustAvailable(st, book_id, 1)

ReservationCancelNoStatusCheck(st, i, t) ==
  LET self == st.reservations[i]
      s1 == [st EXCEPT !.reservations[i].status = "cancelled"]
  IN IF self.status = "ready"
     THEN Ok(ReleaseHeldCopy(s1, self.book_id, t), "Reservation cancelled successfully")
     ELSE Ok([s1 EXCEPT !.reservations =
                [j \in DOMAIN @ |->
                   IF /\ @[j].book_id = self.book_id
                      /\ @[j].status = "waiting"
                      /\ @[j].queue_position > self.queue_position
                   THEN [@[j] EXCEPT !.queue_position = @ - 1]
                   ELSE @[j]]],
             "Reservation cancelled successfully")

Reservation_cancel(st, i, t) ==
  LET self == st.reservations[i] IN
  IF self.status \notin {"waiting", "ready"}
  THEN Fail(st, "Only waiting or ready reservations can be cancelled")
  ELSE LET s1 == [st EXCEPT !.reservations[i].status = "cancelled"] IN
       IF self.status = "ready"
       THEN Ok(ReleaseHeldCopy(s1, self.book_id, t), "Reservation cancelled successfully")
       ELSE Ok([s1 EXCEPT !.reservations =
                  [j \in DOMAIN @ |->
                     IF /\ @[j].book_id = self.book_id
                        /\ @[j].status = "waiting"
                        /\ @[j].queue_position > self.queue_position
                     THEN [@[j] EXCEPT !.queue_position = @ - 1]
                     ELSE @[j]]],
               "Reservation cancelled successfully")

MarkExpiredKeepsCopy(st, i, t) ==
  LET self == st.reservations[i] IN
  IF self.status # "ready"
  THEN Fail(st, "Only ready reservations can expire")
  ELSE LET s1 == [st EXCEPT !.reservations[i].status = "expired"]
           next_reservation == get_next_in_queue(s1, self.book_id)
       IN Ok(IF next_reservation # 0
             THEN mark_ready(s1, next_reservation, HOLD_HOURS, t).st
             ELSE s1,
             "Reservation marked as expired")

MarkExpiredStatusNotPersisted(st, i, t) ==
  LET self == st.reservations[i] IN
  IF self.status # "ready"
  THEN Fail(st, "Only ready reservations can expire")
  ELSE Ok(ReleaseHeldCopy(st, self.book_id, t), "Reservation marked as expired")

mark_expired(st, i, t) ==
  LET self == st.reservations[i] IN
  IF self.status # "ready"
  THEN Fail(st, "Only ready reservations can expire")
  ELSE Ok(ReleaseHeldCopy([st EXCEPT !.reservations[i].status = "expired"],
                          self.book_id, t),
          "Reservation marked as expired")

\* Reservation.complete: the hold is claimed; the inventory is not touched.
Reservation_complete(st, i) ==
  IF st.reservations[i].status # "ready"
  THEN Fail(st, "Only ready reservations can be completed")
  ELSE Ok([st EXCEPT !.reservations[i].status = "completed"], "Reservation completed")

\* ------------------------------------------------------------ Loan Lifecycle
get_active_borrows(st, user_id) ==
  {i \in DOMAIN st.borrows :
     /\ st.borrows[i].user_id = user_id
     /\ st.borrows[i].status \in {"borrowed", "pending_pickup"}}

BorrowCreateWithoutLimit(st, user_id, book_id, t) ==
  LET book == st.books[book_id]
      active_borrows == get_active_borrows(st, user_id)
  IN
  IF book.available_copies <= 0
  THEN Fail(st, "Book is not available. Please reserve it instead.")
  ELSE IF \E i \in active_borrows : st.borrows[i].book_id = book_id
  THEN Fail(st, "You have already borrowed or requested this book")
  ELSE IF st.users[user_id].fines > 0
  THEN Fail(st, "Please pay your outstanding fine before borrowing")
  ELSE LET s1 == [st EXCEPT !.borrows = Append(@,
                    [user_id |-> user_id, book_id |-> book_id,
                     due_date |-> t + BORROW_DURATION_DAYS * MinutesPerDay,
                     status |-> "pending_pickup",
                     renewed_count |-> 0,
                     pending_until |-> t + PENDING_PICKUP_HOURS * MinutesPerHour,
                     condition |-> "NULL", damage_fee |-> 0, late_fee |-> 0])]
           s2 == AdjustAvailable(s1, book_id, -1)
       IN Ok(increment_borrow_count(s2, book_id), "Book reserved! Please pick it up within 48 hours")

BorrowCreateAllowingDuplicate(st, user_id, book_id, t) ==
  LET book == st.books[book_id]
      active_borrows == get_active_borrows(st, user_id)
  IN
  IF book.available_copies <= 0
  THEN Fail(st, "Book is not available. Please reserve it instead.")
  ELSE IF Cardinality(active_borrows) >= MAX_BORROW_LIMIT
  THEN Fail(st, "You have reached the maximum borrow limit")
  ELSE IF st.users[user_id].fines > 0
  THEN Fail(st, "Please pay your outstanding fine before borrowing")
  ELSE LET s1 == [st EXCEPT !.borrows = Append(@,
                    [user_id |-> user_id, book_id |-> book_id,
                     due_date |-> t + BORROW_DURATION_DAYS * MinutesPerDay,
                     status |-> "pending_pickup",
                     renewed_count |-> 0,
                     pending_until |-> t + PENDING_PICKUP_HOURS * MinutesPerHour,
                     condition |-> "NULL", damage_fee |-> 0, late_fee |-> 0])]
           s2 == AdjustAvailable(s1, book_id, -1)
       IN Ok(increment_borrow_count(s2, book_id), "Book reserved! Please pick it up within 48 hours")

BorrowCreateIgnoringFines(st, user_id, book_id, t) ==
  LET book == st.books[book_id]
      active_borrows == get_active_borrows(st, user_id)
  IN
  IF book.available_copies <= 0
  THEN Fail(st, "Book is not available. Please reserve it instead.")
  ELSE IF Cardinality(active_borrows) >= MAX_BORROW_LIMIT
  THEN Fail(st, "You have reached the maximum borrow limit")
  ELSE IF \E i \in active_borrows : st.borrows[i].book_id = book_id
  THEN Fail(st, "You have already borrowed or requested this book")
  ELSE LET s1 == [st EXCEPT !.borrows = Append(@,
                    [user_id |-> user_id, book_id |-> book_id,
                     due_date |-> t + BORROW_DURATION_DAYS * MinutesPerDay,
                     status |-> "pending_pickup",
                     renewed_count |-> 0,
                     pending_until |-> t + PENDING_PICKUP_HOURS * MinutesPerHour,
                     condition |-> "NULL", damage_fee |-> 0, late_fee |-> 0])]
           s2 == AdjustAvailable(s1, book_id, -1)
       IN Ok(increment_borrow_count(s2, book_id), "Book reserved! Please pick it up within 48 hours")

Borrow_create(st, user_id, book_id, t) ==
  LET book == st.books[book_id]
      active_borrows == get_active_borrows(st, user_id)
  IN
  IF book.available_copies <= 0
  THEN Fail(st, "Book is not available. Please reserve it instead.")
  ELSE IF Cardinality(active_borrows) >= MAX_BORROW_LIMIT
  THEN Fail(st, "You have reached the maximum borrow limit")
  ELSE IF \E i \in active_borrows : st.borrows[i].book_id = book_id
  THEN Fail(st, "You have already borrowed or requested this book")
  ELSE IF st.users[user_id].fines > 0
  THEN Fail(st, "Please pay your outstanding fine before borrowing")
  ELSE LET s1 == [st EXCEPT !.borrows = Append(@,
                    [user_id |-> user_id, book_id |-> book_id,
                     due_date |-> t + BORROW_DURATION_DAYS * MinutesPerDay,
                     status |-> "pending_pickup",
                     renewed_count |-> 0,
                     pending_until |-> t + PENDING_PICKUP_HOURS * MinutesPerHour,
                     condition |-> "NULL", damage_fee |-> 0, late_fee |-> 0])]
           s2 == AdjustAvailable(s1, book_id, -1)
       IN Ok(increment_borrow_count(s2, book_id), "Book reserved! Please pick it up within 48 hours")

\* The tail of Borrow.cancel and Borrow.return_book: the copy goes back to the
\* public count, and the next waiting reservation (if any) is marked ready.
NotifyNextInQueue(st, book_id, t) ==
  IF has_active_reservations(st, book_id)
  THEN LET next_reservation == get_next_in_queue(st, book_id) IN
       IF next_reservation # 0
       THEN mark_ready(st, next_reservation, HOLD_HOURS, t).st
       ELSE st
  ELSE st

BorrowCancelStatusNotPersisted(st, i, t) ==
  LET self == st.borrows[i] IN
  IF self.status # "pending_pickup"
  THEN Fail(st, "Only pending pickup requests can be cancelled")
  ELSE LET s2 == AdjustAvailable(st, self.book_id, 1)
       IN Ok(NotifyNextInQueue(s2, self.book_id, t), "Borrow request cancelled")

BorrowCancelNoStatusCheck(st, i, t) ==
  LET self == st.borrows[i]
      s1 == [st EXCEPT !.borrows[i].status = "cancelled"]
      s2 == AdjustAvailable(s1, self.book_id, 1)
  IN Ok(NotifyNextInQueue(s2, self.book_id, t), "Borrow request cancelled")

Borrow_cancel(st, i, t) ==
  LET self == st.borrows[i] IN
  IF self.status # "pending_pickup"
  THEN Fail(st, "Only pending pickup requests can be cancelled")
  ELSE LET s1 == [st EXCEPT !.borrows[i].status = "cancelled"]
           s2 == AdjustAvailable(s1, self.book_id, 1)
       IN Ok(NotifyNextInQueue(s2, self.book_id, t), "Borrow request cancelled")

ApprovePickupNoStatusCheck(st, i, t) ==
  LET self == st.borrows[i] IN
  IF self.pending_until # NULL /\ t > self.pending_until
  THEN Fail(Borrow_cancel(st, i, t).st,
            "Pickup deadline has passed. Request has been cancelled.")
  ELSE Ok([st EXCEPT !.borrows[i].status = "borrowed",
                     !.borrows[i].due_date = t + BORROW_DURATION_DAYS * MinutesPerDay],
          "Book pickup confirmed!")

ApprovePickupIgnoringDeadline(st, i, t) ==
  LET self == st.borrows[i] IN
  IF self.status # "pending_pickup"
  THEN Fail(st, "Only pending pickup requests can be approved")
  ELSE Ok([st EXCEPT !.borrows[i].status = "borrowed",
                     !.borrows[i].due_date = t + BORROW_DURATION_DAYS * MinutesPerDay],
          "Book pickup confirmed!")

approve_pickup(st, i, t) ==
  LET self == st.borrows[i] IN
  IF self.status # "pending_pickup"
  THEN Fail(st, "Only pending pickup requests can be approved")
  ELSE IF self.pending_until # NULL /\ t > self.pending_until
  THEN Fail(Borrow_cancel(st, i, t).st,
            "Pickup deadline has passed. Request has been cancelled.")
  ELSE Ok([st EXCEPT !.borrows[i].status = "borrowed",
                     !.borrows[i].due_date = t + BORROW_DURATION_DAYS * MinutesPerDay],
          "Book pickup confirmed!")

\* The legacy approval, for requests in the former status 'waiting'.
approve(st, i) ==
  IF st.borrows[i].status # "waiting"
  THEN Fail(st, "Only waiting requests can be approved")
  ELSE Ok([st EXCEPT !.borrows[i].status = "borrowed"], "Borrow request approved")

approve_borrow_by_id(st, i) ==
  IF i \in DOMAIN st.borrows THEN approve(st, i)
  ELSE Fail(st, "Borrow request not found")

\* Borrow.borrow_book: the locked-account check, then Borrow.create.
borrow_book(st, user_id, book_id, t) ==
  IF st.users[user_id].is_locked
  THEN Fail(st, "Your account is locked. Please contact the library.")
  ELSE Borrow_create(st, user_id, book_id, t)

\* Fine.create: a row of violations_history, payment_status 'unpaid'.
Fine_create(st, user_id, fine_type, fine_amount, borrow_id) ==
  [st EXCEPT !.violations_history = Append(@,
     [user_id |-> user_id, borrow_id |-> borrow_id,
      violation_type |-> fine_type, fine_amount |-> fine_amount,
      payment_status |-> "unpaid"])]

\* User.add_fine, then User.add_violation (add_fine_record): each commits.
add_fine(st, user_id, amount) ==
  [st EXCEPT !.users[user_id].fines = @ + amount]

add_violation(st, user_id) ==
  [st EXCEPT !.users[user_id].violations = @ + 1]

ReturnBookNoStatusCheck(st, i, condition, book_value, t) ==
  LET self == st.borrows[i]
      late_fee == calculate_late_fee(self.due_date, t)
      damage_fee == calculate_damage_fee(condition, book_value)
      total_fine == late_fee + damage_fee
      s1 == [st EXCEPT !.borrows[i].status = "returned",
                       !.borrows[i].condition = condition,
                       !.borrows[i].late_fee = late_fee,
                       !.borrows[i].damage_fee = damage_fee]
      s2 == AdjustAvailable(s1, self.book_id, 1)
  IN IF total_fine > 0
     THEN Raised(add_violation(add_fine(s2, self.user_id, total_fine), self.user_id),
                 "AttributeError: MAX_VIOLATIONS_BEFORE_LOCK")
     ELSE Ok(NotifyNextInQueue(s2, self.book_id, t), "Book returned.")

return_book(st, i, condition, book_value, t) ==
  LET self == st.borrows[i] IN
  IF self.status # "borrowed"
  THEN Fail(st, "Only borrowed books can be returned")
  ELSE LET late_fee == calculate_late_fee(self.due_date, t)
           damage_fee == calculate_damage_fee(condition, book_value)
           total_fine == late_fee + damage_fee
           s1 == [st EXCEPT !.borrows[i].status = "returned",
                            !.borrows[i].condition = condition,
                            !.borrows[i].late_fee = late_fee,
                            !.borrows[i].damage_fee = damage_fee]
           s2 == AdjustAvailable(s1, self.book_id, 1)
       IN IF total_fine > 0
          \* add_violation commits the counter and then reads
          \* Config.MAX_VIOLATIONS_BEFORE_LOCK, which Config does not define:
          \* the AttributeError leaves return_book before the reservation check.
          THEN Raised(add_violation(add_fine(s2, self.user_id, total_fine), self.user_id),
                      "AttributeError: MAX_VIOLATIONS_BEFORE_LOCK")
          ELSE Ok(NotifyNextInQueue(s2, self.book_id, t), "Book returned.")

RenewWithoutLimit(st, i, extension_days, t) ==
  LET self == st.borrows[i] IN
  IF self.status # "borrowed"
  THEN Fail(st, "Only borrowed books can be renewed")
  ELSE IF t > self.due_date
  THEN Fail(st, "Overdue books cannot be renewed")
  ELSE IF has_active_reservations(st, self.book_id)
  THEN Fail(st, "Cannot renew: Someone has reserved this book")
  ELSE Ok([st EXCEPT !.borrows[i].due_date = @ + extension_days * MinutesPerDay,
                     !.borrows[i].renewed_count = @ + 1],
          "Book renewed successfully.")

RenewIgnoringReservations(st, i, extension_days, t) ==
  LET self == st.borrows[i] IN
  IF self.status # "borrowed"
  THEN Fail(st, "Only borrowed books can be renewed")
  ELSE IF self.renewed_count >= 1
  THEN Fail(st, "Maximum renewal limit (1 time) has been reached")
  ELSE IF t > self.due_date
  THEN Fail(st, "Overdue books cannot be renewed")
  ELSE Ok([st EXCEPT !.borrows[i].due_date = @ + extension_days * MinutesPerDay,
                     !.borrows[i].renewed_count = @ + 1],
          "Book renewed successfully.")

RenewWhenOverdue(st, i, extension_days, t) ==
  LET self == st.borrows[i] IN
  IF self.status # "borrowed"
  THEN Fail(st, "Only borrowed books can be renewed")
  ELSE IF self.renewed_count >= 1
  THEN Fail(st, "Maximum renewal limit (1 time) has been reached")
  ELSE IF has_active_reservations(st, self.book_id)
  THEN Fail(st, "Cannot renew: Someone has reserved this book")
  ELSE Ok([st EXCEPT !.borrows[i].due_date = @ + extension_days * MinutesPerDay,
                     !.borrows[i].renewed_count = @ + 1],
          "Book renewed successfully.")

renew(st, i, extension_days, t) ==
  LET self == st.borrows[i] IN
  IF self.status # "borrowed"
  THEN Fail(st, "Only borrowed books can be renewed")
  ELSE IF self.renewed_count >= 1
  THEN Fail(st, "Maximum renewal limit (1 time) has been reached")
  ELSE IF t > self.due_date
  THEN Fail(st, "Overdue books cannot be renewed")
  ELSE IF has_active_reservations(st, self.book_id)
  THEN Fail(st, "Cannot renew: Someone has reserved this book")
  ELSE Ok([st EXCEPT !.borrows[i].due_date = @ + extension_days * MinutesPerDay,
                     !.borrows[i].renewed_count = @ + 1],
          "Book renewed successfully.")

\* auto_cancel_expired_pickups: the rows selected up front, cancelled in id order.
RECURSIVE CancelEach(_, _, _, _)
CancelEach(st, ids, count, t) ==
  IF ids = {} THEN [st |-> st, count |-> count]
  ELSE LET i == CHOOSE x \in ids : \A y \in ids : x <= y
           r == Borrow_cancel(st, i, t)
       IN CancelEach(r.st, ids \ {i}, IF r.outcome = "ok" THEN count + 1 ELSE count, t)

auto_cancel_expired_pickups(st, t) ==
  LET expired_rows == {i \in DOMAIN st.borrows :
                         /\ st.borrows[i].status = "pending_pickup"
                         /\ st.borrows[i].pending_until < t}
  IN CancelEach(st, expired_rows, 0, t)

\* ------------------------------------------------------------------ state
\* A requester that is running no handler.
Idle == [pc |-> "idle"]

\* Book.create: every copy of a new book is available.
Init ==
  /\ books \in [Books -> {[total_copies |-> n, available_copies |-> n,
                           borrow_count |-> 0] : n \in 1..MaxCopies}]
  /\ borrows = << >>
  /\ reservations = << >>
  /\ violations_history = << >>
  /\ users = [u \in Users |-> [fines |-> 0, violations |-> 0, is_locked |-> FALSE]]
  /\ now = 0
  /\ calls = [u \in Users |-> Idle]

Commit(st) ==
  /\ books' = st.books
  /\ borrows' = st.borrows
  /\ reservations' = st.reservations
  /\ users' = st.users
  /\ violations_history' = st.violations_history

\* ---------------------------------------------------------------- actions
\* POST /user/borrow/<book_id>
BorrowBook ==
  \E u \in Users, b \in Books :
    LET r == Borrow_create(DB, u, b, now) IN
    /\ r.outcome = "ok" => Len(borrows) < MaxBorrows
    /\ Commit(r.st)
    /\ UNCHANGED <<now, calls>>

\* POST /api/borrow/<book_id>
ApiBorrowBook ==
  \E u \in Users, b \in Books :
    LET r == borrow_book(DB, u, b, now) IN
    /\ Len(r.st.borrows) <= MaxBorrows
    /\ Commit(r.st)
    /\ UNCHANGED <<now, calls>>

\* POST /staff/process-borrow: Borrow.create, then the legacy approval of the
\* loan just created.
staff_process_borrow(st, user_id, book_id, t) ==
  IF st.books[book_id].available_copies <= 0
  THEN Fail(st, "Book is not available")
  ELSE LET r == Borrow_create(st, user_id, book_id, t) IN
       IF r.outcome # "ok" THEN Fail(r.st, "Failed to process borrow")
       ELSE LET a == approve_borrow_by_id(r.st, Len(r.st.borrows)) IN
            IF a.outcome = "ok" THEN Ok(a.st, "borrowed successfully")
            ELSE Fail(a.st, "Failed to process borrow")

StaffProcessBorrow ==
  \E u \in Users, b \in Books :
    LET r == staff_process_borrow(DB, u, b, now) IN
    /\ Len(r.st.borrows) <= MaxBorrows
    /\ Commit(r.st)
    /\ UNCHANGED <<now, calls>>

\* POST /staff/approve/<borrow_id>
StaffApproveBorrow ==
  \E i \in DOMAIN borrows :
    /\ Commit(approve_pickup(DB, i, now).st)
    /\ UNCHANGED <<now, calls>>

\* POST /staff/reject/<borrow_id>
staff_reject_borrow(st, i, t) ==
  IF st.borrows[i].status = "pending_pickup"
  THEN Borrow_cancel(st, i, t)
  ELSE Fail(st, "Only pending pickup requests can be rejected")

StaffRejectBorrow ==
  \E i \in DOMAIN borrows :
    /\ Commit(staff_reject_borrow(DB, i, now).st)
    /\ UNCHANGED <<now, calls>>

\* Borrow.cancel_borrow_by_user: the row it picks among the user's
\* pending_pickup rows (latest first) for the book, 0 for none.
PendingBorrowOf(st, user_id, book_id) ==
  LET mine == {i \in DOMAIN st.borrows :
                 /\ st.borrows[i].user_id = user_id
                 /\ st.borrows[i].status = "pending_pickup"
                 /\ st.borrows[i].book_id = book_id}
  IN IF mine = {} THEN 0 ELSE CHOOSE i \in mine : \A j \in mine : j <= i

cancel_borrow_by_user(st, user_id, book_id, t) ==
  LET i == PendingBorrowOf(st, user_id, book_id) IN
  IF i # 0 THEN Borrow_cancel(st, i, t)
  ELSE Fail(st, "No pending borrow request found for this book")

\* POST /api/cancel/<book_id>
ApiCancelBorrow ==
  \E u \in Users, b \in Books :
    /\ Commit(cancel_borrow_by_user(DB, u, b, now).st)
    /\ UNCHANGED <<now, calls>>

\* POST /staff/process-return, POST /api/return/<book_id>
ReturnBook ==
  \E i \in DOMAIN borrows, c \in Conditions, v \in BookValues :
    /\ Commit(return_book(DB, i, c, v, now).st)
    /\ UNCHANGED <<now, calls>>

\* POST /api/renew/<book_id>
RenewBook ==
  \E i \in DOMAIN borrows, d \in ExtensionDays :
    /\ Commit(renew(DB, i, d, now).st)
    /\ UNCHANGED <<now, calls>>

\* The scheduled sweep of expired pending pickups.
AutoCancelExpiredPickups ==
  /\ Commit(auto_cancel_expired_pickups(DB, now).st)
  /\ UNCHANGED <<now, calls>>

\* Reservation.get_user_book_reservation: the user's latest reservation of the
\* book (rows are inserted in date order), 0 for None.
get_user_book_reservation(st, user_id, book_id) ==
  LET mine == {i \in DOMAIN st.reservations :
                 /\ st.reservations[i].user_id = user_id
                 /\ st.reservations[i].book_id = book_id}
  IN IF mine = {} THEN 0 ELSE CHOOSE i \in mine : \A j \in mine : j <= i

ReserveWithoutRouteCheck(st, user_id, book_id, t) ==
  Reservation_create(st, user_id, book_id, t)

\* POST /api/reserve/<book_id>
reserve_book(st, user_id, book_id, t) ==
  LET existing == get_user_book_reservation(st, user_id, book_id) IN
  IF existing # 0 /\ st.reservations[existing].status \in {"waiting", "ready"}
  THEN Fail(st, "You already have an active reservation for this book")
  ELSE Reservation_create(st, user_id, book_id, t)

ReserveBook ==
  \E u \in Users, b \in Books :
    LET r == reserve_book(DB, u, b, now) IN
    /\ r.outcome = "ok" => Len(reservations) < MaxReservations
    /\ Commit(r.st)
    /\ UNCHANGED <<now, calls>>

\* POST /api/cancel-reservation/<id>, POST /user/reservation/cancel/<id>
CancelReservation ==
  \E i \in DOMAIN reservations :
    /\ Commit(Reservation_cancel(DB, i, now).st)
    /\ UNCHANGED <<now, calls>>

\* The scheduled sweep of ready reservations past their hold deadline.
ExpireReservation ==
  \E i \in DOMAIN reservations :
    /\ reservations[i].status = "ready"
    /\ now > reservations[i].hold_until
    /\ Commit(mark_expired(DB, i, now).st)
    /\ UNCHANGED <<now, calls>>

\* POST /user/pay-fine
pay_fine(st, user_id, amount) ==
  [st EXCEPT !.users[user_id].fines = IF @ - amount < 0 THEN 0 ELSE @ - amount]

PayFine ==
  \E u \in Users :
    /\ users[u].fines > 0
    /\ Commit(pay_fine(DB, u, users[u].fines))
    /\ UNCHANGED <<now, calls>>

Tick ==
  /\ now + TickStep <= MaxTicks * TickStep
  /\ now' = now + TickStep
  /\ UNCHANGED <<books, borrows, reservations, users, violations_history, calls>>

Next ==
  \/ BorrowBook
  \/ ApiBorrowBook
  \/ StaffProcessBorrow
  \/ StaffApproveBorrow
  \/ StaffRejectBorrow
  \/ ApiCancelBorrow
  \/ ReturnBook
  \/ RenewBook
  \/ AutoCancelExpiredPickups
  \/ ReserveBook
  \/ CancelReservation
  \/ ExpireReservation
  \/ PayFine
  \/ Tick

Spec == Init /\ [][Next]_vars

\* ------------------------------------------- Borrow.create, statement by statement
\* Requests are served by threads (async_mode='threading'); each step below is
\* one statement of Borrow.create against the shared store, and the steps of
\* different requesters interleave freely.

\* book = Book.get_by_id(book_id); the availability check on the loaded object.
CreateLoadBook ==
  \E u \in Users, b \in Books :
    /\ calls[u].pc = "idle"
    /\ Len(borrows) < MaxBorrows
    /\ calls' = [calls EXCEPT ![u] =
         IF books[b].available_copies <= 0 THEN Idle
         ELSE [pc |-> "check_active", book_id |-> b, book |-> books[b]]]
    /\ UNCHANGED <<books, borrows, reservations, users, violations_history, now>>

\* active_borrows = Borrow.get_active_borrows(user_id); validations 2 and 3.
CreateCheckActive ==
  \E u \in Users :
    /\ calls[u].pc = "check_active"
    /\ LET active_borrows == get_active_borrows(DB, u) IN
       calls' = [calls EXCEPT ![u] =
         IF \/ Cardinality(active_borrows) >= MAX_BORROW_LIMIT
            \/ \E i \in active_borrows : borrows[i].book_id = calls[u].book_id
         THEN Idle
         ELSE [@ EXCEPT !.pc = "check_fines"]]
    /\ UNCHANGED <<books, borrows, reservations, users, violations_history, now>>

\* user = User.get_by_id(user_id); validation 4.
CreateCheckFines ==
  \E u \in Users :
    /\ calls[u].pc = "check_fines"
    /\ calls' = [calls EXCEPT ![u] =
         IF users[u].fines > 0 THEN Idle ELSE [@ EXCEPT !.pc = "insert"]]
    /\ UNCHANGED <<books, borrows, reservations, users, violations_history, now>>

\* INSERT INTO borrows ... 'pending_pickup'
CreateInsert ==
  \E u \in Users :
    /\ calls[u].pc = "insert"
    /\ Len(borrows) < MaxBorrows
    /\ borrows' = Append(borrows,
         [user_id |-> u, book_id |-> calls[u].book_id,
          due_date |-> now + BORROW_DURATION_DAYS * MinutesPerDay,
          status |-> "pending_pickup", renewed_count |-> 0,
          pending_until |-> now + PENDING_PICKUP_HOURS * MinutesPerHour,
          condition |-> "NULL", damage_fee |-> 0, late_fee |-> 0])
    /\ calls' = [calls EXCEPT ![u].pc = "update_copies"]
    /\ UNCHANGED <<books, reservations, users, violations_history, now>>

\* book.update_available_copies(-1), on the Book object loaded at the start.
CreateUpdateCopies ==
  \E u \in Users :
    /\ calls[u].pc = "update_copies"
    /\ LET v == update_available_copies(calls[u].book.available_copies,
                                        calls[u].book.total_copies, -1) IN
       /\ books' = [books EXCEPT ![calls[u].book_id].available_copies = v]
       /\ calls' = [calls EXCEPT ![u].pc = "increment",
                                 ![u].book.available_copies = v]
    /\ UNCHANGED <<borrows, reservations, users, violations_history, now>>

\* book.increment_borrow_count(); db.commit(); the loan is returned to the caller.
CreateIncrementCount ==
  \E u \in Users :
    /\ calls[u].pc = "increment"
    /\ books' = [books EXCEPT ![calls[u].book_id].borrow_count =
                   calls[u].book.borrow_count + 1]
    /\ calls' = [calls EXCEPT ![u] = Idle]
    /\ UNCHANGED <<borrows, reservations, users, violations_history, now>>

NextCreate ==
  \/ CreateLoadBook
  \/ CreateCheckActive
  \/ CreateCheckFines
  \/ CreateInsert
  \/ CreateUpdateCopies
  \/ CreateIncrementCount

SpecCreate == Init /\ [][NextCreate]_vars

\* ------------------------------------------------- requests up to the loan limit
\* A catalogue of single-copy titles, large enough for a requester to reach
\* MAX_BORROW_LIMIT active loans and ask for one more.
InitLimit ==
  /\ books = [b \in 1..LimitBooks |->
                [total_copies |-> 1, available_copies |-> 1, borrow_count |-> 0]]
  /\ borrows = << >>
  /\ reservations = << >>
  /\ violations_history = << >>
  /\ users = [u \in 1..LimitUsers |->
                [fines |-> 0, violations |-> 0, is_locked |-> FALSE]]
  /\ now = 0
  /\ calls = [u \in Users |-> Idle]

\* POST /user/borrow/<book_id>
RequestLoan ==
  \E u \in DOMAIN users, b \in DOMAIN books :
    LET r == Borrow_create(DB, u, b, now) IN
    /\ Len(r.st.borrows) <= LimitLoans
    /\ Commit(r.st)
    /\ UNCHANGED <<now, calls>>

NextLimit ==
  \/ RequestLoan
  \/ StaffApproveBorrow
  \/ StaffRejectBorrow

SpecLimit == InitLimit /\ [][NextLimit]_vars

\* ------------------------------------------------------ returns at every delay
\* One loan, approved at time 0 and so due after BORROW_DURATION_DAYS, with the
\* clock standing anywhere from before the due time to days after it.
InitFee ==
  /\ books = [b \in Books |->
                [total_copies |-> 1, available_copies |-> 0, borrow_count |-> 1]]
  /\ borrows = << [user_id |-> 1, book_id |-> 1,
                   due_date |-> BORROW_DURATION_DAYS * MinutesPerDay,
                   status |-> "borrowed", renewed_count |-> 0,
                   pending_until |-> PENDING_PICKUP_HOURS * MinutesPerHour,
                   condition |-> "NULL", damage_fee |-> 0, late_fee |-> 0] >>
  /\ reservations = << >>
  /\ violations_history = << >>
  /\ users = [u \in Users |-> [fines |-> 0, violations |-> 0, is_locked |-> FALSE]]
  /\ now \in (BORROW_DURATION_DAYS * MinutesPerDay - MaxEarlyMinutes)
              .. (BORROW_DURATION_DAYS * MinutesPerDay + MaxDelayMinutes)
  /\ calls = [u \in Users |-> Idle]

\* POST /staff/process-return: the borrowed loan of the book (any one, LIMIT 1)
\* is returned with the posted condition and value; on success, with the
\* fine-paid box ticked, the requester's whole balance is paid.
staff_process_return(st, i, condition, book_value, fine_paid, t) ==
  LET r == return_book(st, i, condition, book_value, t)
      u == st.borrows[i].user_id
  IN IF r.outcome = "ok" /\ fine_paid /\ r.st.users[u].fines > 0
     THEN Ok(pay_fine(r.st, u, r.st.users[u].fines), r.msg)
     ELSE r

StaffProcessReturn ==
  \E i \in DOMAIN borrows, c \in PostedConditions, v \in PostedValues,
     fine_paid \in BOOLEAN :
    /\ borrows[i].status = "borrowed"
    /\ Commit(staff_process_return(DB, i, c, v, fine_paid, now).st)
    /\ UNCHANGED <<now, calls>>

NextFee == StaffProcessReturn

SpecFee == InitFee /\ [][NextFee]_vars

\* ---------------------------------------------------------------------------
\* Concurrent callers of Book.update_available_copies. Each caller loads its
\* own Book object (Book.get_by_id) and then calls update_available_copies on
\* it; another caller's load or write may run between the two steps.
\* ---------------------------------------------------------------------------
LedgerCopies == 6
MaxDelta == 2
Deltas == ((0 - MaxDelta)..MaxDelta) \ {0}

\* The item holds LedgerCopies copies, any number of them available.
InitLedger ==
  /\ books \in [Books -> {[total_copies |-> LedgerCopies, available_copies |-> n,
                           borrow_count |-> 0] : n \in 0..LedgerCopies}]
  /\ borrows = << >>
  /\ reservations = << >>
  /\ violations_history = << >>
  /\ users = [u \in Users |-> [fines |-> 0, violations |-> 0, is_locked |-> FALSE]]
  /\ now = 0
  /\ calls = [u \in Users |-> Idle]

\* book = Book.get_by_id(book_id): the caller's own object, and the change it
\* is about to apply.
LedgerLoad ==
  \E u \in Users, b \in Books, change \in Deltas :
    /\ calls[u].pc = "idle"
    /\ calls' = [calls EXCEPT ![u] =
         [pc |-> "loaded", book_id |-> b, book |-> books[b],
          loaded |-> books[b].available_copies, change |-> change]]
    /\ UNCHANGED <<books, borrows, reservations, users, violations_history, now>>

\* book.update_available_copies(change): the object's field is changed and
\* clamped, and UPDATE books SET available_copies = ? writes that value.
LedgerUpdate ==
  \E u \in Users :
    /\ calls[u].pc = "loaded"
    /\ LET v == update_available_copies(calls[u].book.available_copies,
                                        calls[u].book.total_copies,
                                        calls[u].change) IN
       /\ books' = [books EXCEPT ![calls[u].book_id].available_copies = v]
       /\ calls' = [calls EXCEPT ![u].pc = "done",
                                 ![u].book.available_copies = v]
    /\ UNCHANGED <<borrows, reservations, users, violations_history, now>>

NextLedger ==
  \/ LedgerLoad
  \/ LedgerUpdate

SpecLedger == InitLedger /\ [][NextLedger]_vars

\* ---------------------------------------------------------------------------
\* Concurrent inventory-releasing transitions. A request thread loads a loan
\* (Borrow.get_by_id) and calls return_book or cancel on it. The status
\* update and the inventory write are one transaction; the cascade that
\* follows db.commit() reads the queue and promotes in two further steps.
\* ---------------------------------------------------------------------------
Releases == {"return_book", "cancel"}

\* Loans and reservations are made while no release is in flight.
CascadeSetup ==
  /\ \A u \in Users : calls[u].pc = "idle"
  /\ \/ BorrowBook
     \/ StaffApproveBorrow
     \/ ReserveBook

\* borrow = Borrow.get_by_id(borrow_id)
CascadeLoad ==
  \E u \in Users, i \in DOMAIN borrows, kind \in Releases :
    /\ calls[u].pc = "idle"
    /\ calls' = [calls EXCEPT ![u] =
         [pc |-> "release", kind |-> kind, borrow_id |-> i, self |-> borrows[i],
          released |-> FALSE, next_reservation |-> 0, promoted |-> 0]]
    /\ UNCHANGED <<books, borrows, reservations, users, violations_history, now>>

\* The status check on the loaded loan, UPDATE borrows SET status, then
\* book = Book.get_by_id; book.update_available_copies(1); db.commit().
\* The book is returned in good condition.
CascadeRelease ==
  \E u \in Users :
    /\ calls[u].pc = "release"
    /\ LET c == calls[u]
           i == c.borrow_id
           late_fee == calculate_late_fee(c.self.due_date, now)
           damage_fee == calculate_damage_fee("good", 0)
           wrong == IF c.kind = "return_book" THEN c.self.status # "borrowed"
                    ELSE c.self.status # "pending_pickup"
           s1 == IF c.kind = "return_book"
                 THEN [DB EXCEPT !.borrows[i].status = "returned",
                                 !.borrows[i].condition = "good",
                                 !.borrows[i].late_fee = late_fee,
                                 !.borrows[i].damage_fee = damage_fee]
                 ELSE [DB EXCEPT !.borrows[i].status = "cancelled"]
           s2 == AdjustAvailable(s1, c.self.book_id, 1)
       IN IF wrong \/ late_fee + damage_fee > 0
          THEN /\ calls' = [calls EXCEPT ![u].pc = "done"]
               /\ UNCHANGED <<books, borrows, reservations, users,
                              violations_history>>
          ELSE /\ Commit(s2)
               /\ calls' = [calls EXCEPT ![u].pc = "find", ![u].released = TRUE]
    /\ UNCHANGED now

\* if Reservation.has_active_reservations(book_id):
\*     next_reservation = Reservation.get_next_in_queue(book_id)
CascadeFind ==
  \E u \in Users :
    /\ calls[u].pc = "find"
    /\ LET b == calls[u].self.book_id
           next_reservation == IF has_active_reservations(DB, b)
                               THEN get_next_in_queue(DB, b) ELSE 0
       IN calls' = [calls EXCEPT ![u] =
            IF next_reservation = 0 THEN [@ EXCEPT !.pc = "done"]
            ELSE [@ EXCEPT !.pc = "mark_ready",
                           !.next_reservation = next_reservation]]
    /\ UNCHANGED <<books, borrows, reservations, users, violations_history, now>>

\* next_reservation.mark_ready(hold_hours=48), on the Reservation object that
\* get_next_in_queue built: its status is 'waiting', and the UPDATE names the
\* row by id only.
CascadeMarkReady ==
  \E u \in Users :
    /\ calls[u].pc = "mark_ready"
    /\ LET r == calls[u].next_reservation IN
       /\ reservations' = [reservations EXCEPT
            ![r].status = "ready",
            ![r].hold_until = now + HOLD_HOURS * MinutesPerHour]
       /\ calls' = [calls EXCEPT ![u].pc = "done", ![u].promoted = r]
    /\ UNCHANGED <<books, borrows, users, violations_history, now>>

NextCascade ==
  \/ CascadeSetup
  \/ CascadeLoad
  \/ CascadeRelease
  \/ CascadeFind
  \/ CascadeMarkReady

SpecCascade == Init /\ [][NextCascade]_vars

\* ---------------------------------------------------------------------------
\* Concurrent pickup confirmation, cancellation and sweep of pending loans.
\* Each thread loads the loan (Borrow.get_by_id) and then runs its method on
\* the loaded object; the clock may advance between the two steps.
\* ---------------------------------------------------------------------------
PickupCalls == {"approve_pickup", "cancel", "auto_cancel_expired_pickups"}

\* Borrow.cancel past the status check: UPDATE borrows SET status =
\* 'cancelled' WHERE id = ?, the copy back to inventory, commit, the cascade.
CancelLoaded(st, i, self, t) ==
  LET s1 == [st EXCEPT !.borrows[i].status = "cancelled"]
      s2 == AdjustAvailable(s1, self.book_id, 1)
  IN NotifyNextInQueue(s2, self.book_id, t)

\* Loans are requested while no call on a loan is in flight.
PickupSetup ==
  /\ \A u \in Users : calls[u].pc = "idle"
  /\ BorrowBook

\* borrow = Borrow.get_by_id(borrow_id). The sweep loads the rows its SELECT
\* returned: status 'pending_pickup' and pending_until < now.
PickupLoad ==
  \E u \in Users, i \in DOMAIN borrows, kind \in PickupCalls :
    /\ calls[u].pc = "idle"
    /\ kind = "auto_cancel_expired_pickups"
         => /\ borrows[i].status = "pending_pickup"
            /\ borrows[i].pending_until < now
    /\ calls' = [calls EXCEPT ![u] =
         [pc |-> "loaded", kind |-> kind, borrow_id |-> i, self |-> borrows[i],
          released |-> FALSE]]
    /\ UNCHANGED <<books, borrows, reservations, users, violations_history, now>>

\* borrow.cancel(), from staff_reject_borrow or from the sweep's loop.
PickupCancel ==
  \E u \in Users :
    /\ calls[u].pc = "loaded"
    /\ calls[u].kind \in {"cancel", "auto_cancel_expired_pickups"}
    /\ IF calls[u].self.status # "pending_pickup"
       THEN /\ calls' = [calls EXCEPT ![u].pc = "done"]
            /\ UNCHANGED <<books, borrows, reservations, users,
                           violations_history>>
       ELSE /\ Commit(CancelLoaded(DB, calls[u].borrow_id, calls[u].self, now))
            /\ calls' = [calls EXCEPT ![u].pc = "done", ![u].released = TRUE]
    /\ UNCHANGED now

\* borrow.approve_pickup(): the status check and the deadline check read the
\* loaded object; UPDATE borrows SET status = ?, due_date = ? WHERE id = ?.
PickupApprove ==
  \E u \in Users :
    /\ calls[u].pc = "loaded"
    /\ calls[u].kind = "approve_pickup"
    /\ LET i == calls[u].borrow_id
           self == calls[u].self
       IN IF self.status # "pending_pickup"
          THEN /\ calls' = [calls EXCEPT ![u].pc = "done"]
               /\ UNCHANGED <<books, borrows, reservations, users,
                              violations_history>>
          ELSE IF self.pending_until # NULL /\ now > self.pending_until
          THEN /\ Commit(CancelLoaded(DB, i, self, now))
               /\ calls' = [calls EXCEPT ![u].pc = "done", ![u].released = TRUE]
          ELSE /\ Commit([DB EXCEPT
                    !.borrows[i].status = "borrowed",
                    !.borrows[i].due_date = now + BORROW_DURATION_DAYS * MinutesPerDay])
               /\ calls' = [calls EXCEPT ![u].pc = "done"]
    /\ UNCHANGED now

NextPickup ==
  \/ PickupSetup
  \/ PickupLoad
  \/ PickupCancel
  \/ PickupApprove
  \/ Tick

SpecPickup == Init /\ [][NextPickup]_vars

\* ---------------------------------------------------------------------------
\* The engine with a notification sink that may fail while a cancelled loan's
\* copy is cascaded to the queue.
\* ---------------------------------------------------------------------------

\* POST /staff/reject/<borrow_id>: Borrow.cancel, whose cascade calls
\* mark_ready and ignores its result.
RejectUnderFault ==
  \E i \in DOMAIN borrows, fault \in NotificationFaults :
    /\ borrows[i].status = "pending_pickup"
    /\ LET b == borrows[i].book_id
           s1 == [DB EXCEPT !.borrows[i].status = "cancelled"]
           s2 == AdjustAvailable(s1, b, 1)
           next_reservation == IF has_active_reservations(s2, b)
                               THEN get_next_in_queue(s2, b) ELSE 0
       IN Commit(IF next_reservation = 0 THEN s2
                 ELSE mark_ready_under(s2, next_reservation, HOLD_HOURS, now,
                                       fault).st)
    /\ UNCHANGED <<now, calls>>

NextNotify ==
  \/ BorrowBook
  \/ StaffApproveBorrow
  \/ ReserveBook
  \/ RejectUnderFault
  \/ Tick

SpecNotify == Init /\ [][NextNotify]_vars

\* ---------------------------------------------------------------------------
\* The engine with a store that may fail inside Borrow.create after the
\* INSERT of the loan. Book.update_available_copies and
\* Book.increment_borrow_count each end with db.commit(); the except branch
\* of Borrow.create rolls back what is not yet committed and returns None.
\* ---------------------------------------------------------------------------

\* The statement that raises: none, the UPDATE of update_available_copies,
\* the UPDATE of increment_borrow_count, or SystemLog.add after the last
\* commit.
CreateFaults == {"none", "update_copies", "increment", "log"}

Borrow_create_under(st, user_id, book_id, t, fault) ==
  LET r == Borrow_create(st, user_id, book_id, t) IN
  IF r.outcome # "ok" \/ fault = "none" THEN r
  ELSE IF fault = "update_copies"
  THEN Fail(st, "Failed to create borrow request")
  ELSE IF fault = "increment"
  THEN Fail([r.st EXCEPT !.books[book_id].borrow_count =
                           st.books[book_id].borrow_count],
            "Failed to create borrow request")
  ELSE Fail(r.st, "Failed to create borrow request")

\* User.borrow_book -> Borrow.create
BorrowUnderFault ==
  \E u \in Users, b \in Books, fault \in CreateFaults :
    LET r == Borrow_create_under(DB, u, b, now, fault) IN
    /\ Len(r.st.borrows) <= MaxBorrows
    /\ Commit(r.st)
    /\ UNCHANGED <<now, calls>>

NextStoreFault ==
  \/ BorrowUnderFault
  \/ StaffApproveBorrow
  \/ StaffRejectBorrow
  \/ ReserveBook
  \/ Tick

SpecStoreFault == Init /\ [][NextStoreFault]_vars

\* ---------------------------------------------------------------------------
\* The engine with the book-edit operations: Admin.update_book ->
\* Book.update_fields(available_copies=...) and POST /staff/book/edit.
\* ---------------------------------------------------------------------------
MaxEditCopies == 3
EditCopies == 0..MaxEditCopies

\* The loop of update_fields over the added copies: each is offered to the
\* next waiting reservation; the loop ends when none is waiting.
RECURSIVE AbsorbCopies(_, _, _, _)
AbsorbCopies(st, book_id, added_copies, t) ==
  IF added_copies <= 0 THEN [st |-> st, absorbed |-> 0]
  ELSE LET next_res == get_next_in_queue(st, book_id) IN
       IF next_res = 0 THEN [st |-> st, absorbed |-> 0]
       ELSE LET r == mark_ready(st, next_res, HOLD_HOURS, t)
                rest == AbsorbCopies(r.st, book_id, added_copies - 1, t)
            IN [st |-> rest.st,
                absorbed |-> rest.absorbed + (IF r.outcome = "ok" THEN 1 ELSE 0)]

\* Book.update_fields(available_copies=target_copies): the target, less the
\* copies absorbed by reservations, is written by UPDATE books SET
\* available_copies = ?.
update_fields(st, book_id, target_copies, t) ==
  LET current_copies == st.books[book_id].available_copies
      added_copies == target_copies - current_copies
      a == IF added_copies > 0 THEN AbsorbCopies(st, book_id, added_copies, t)
           ELSE [st |-> st, absorbed |-> 0]
      available_copies == IF a.absorbed > 0 THEN target_copies - a.absorbed
                          ELSE target_copies
  IN Ok([a.st EXCEPT !.books[book_id].available_copies = available_copies],
        "Book updated successfully")

UpdateBook ==
  \E b \in Books, target_copies \in EditCopies :
    /\ Commit(update_fields(DB, b, target_copies, now).st)
    /\ UNCHANGED <<now, calls>>

\* POST /staff/book/edit
staff_edit_book(st, book_id, total_copies, available_copies) ==
  IF available_copies > total_copies
  THEN Fail(st, "Available copies cannot exceed total copies")
  ELSE Ok([st EXCEPT !.books[book_id].total_copies = total_copies,
                     !.books[book_id].available_copies = available_copies],
          "Book information updated successfully!")

StaffEditBook ==
  \E b \in Books, total_copies \in EditCopies, available_copies \in EditCopies :
    /\ Commit(staff_edit_book(DB, b, total_copies, available_copies).st)
    /\ UNCHANGED <<now, calls>>

NextEdit ==
  \/ BorrowBook
  \/ StaffApproveBorrow
  \/ StaffRejectBorrow
  \/ ReturnBook
  \/ ReserveBook
  \/ UpdateBook
  \/ StaffEditBook

SpecEdit == Init /\ [][NextEdit]_vars

\* ---------------------------------------------------------------------------
\* Requests and pickup confirmations on a clock that advances by days, so
\* that a confirmation falls before, on and after the pickup deadline.
\* ---------------------------------------------------------------------------
MaxDeadlineTicks == 3

\* datetime.now(), one day later.
DeadlineTick ==
  /\ now + MinutesPerDay <= MaxDeadlineTicks * MinutesPerDay
  /\ now' = now + MinutesPerDay
  /\ UNCHANGED <<books, borrows, reservations, users, violations_history, calls>>

NextDeadline ==
  \/ BorrowBook
  \/ StaffApproveBorrow
  \/ ReserveBook
  \/ DeadlineTick

SpecDeadline == Init /\ [][NextDeadline]_vars

\* ---------------------------------------------------------------------------
\* The reservation queue under a reconciler that keeps running: its sweep of
\* ready reservations past their hold deadline is not postponed forever.
\* ---------------------------------------------------------------------------
NextReconcile ==
  \/ BorrowBook
  \/ StaffRejectBorrow
  \/ ReserveBook
  \/ CancelReservation
  \/ ExpireReservation
  \/ Tick

SpecReconcile ==
  Init /\ [][NextReconcile]_vars /\ WF_vars(ExpireReservation)

\* ---------------------------------------------------------------------------
\* The reservation methods called one by one: Reservation.mark_ready and
\* Reservation.complete on any reservation, next to the requests that fill
\* the queue.
\* ---------------------------------------------------------------------------

\* reservation.mark_ready(hold_hours=48)
MarkReady ==
  \E i \in DOMAIN reservations :
    /\ Commit(mark_ready(DB, i, HOLD_HOURS, now).st)
    /\ UNCHANGED <<now, calls>>

\* reservation.complete()
CompleteReservation ==
  \E i \in DOMAIN reservations :
    /\ Commit(Reservation_complete(DB, i).st)
    /\ UNCHANGED <<now, calls>>

NextHold ==
  \/ BorrowBook
  \/ StaffRejectBorrow
  \/ ReserveBook
  \/ MarkReady
  \/ CompleteReservation
  \/ Tick

SpecHold == Init /\ [][NextHold]_vars

\* ---------------------------------------------------------------------------
\* Renewal requests around the due time: one borrowed loan, the clock
\* anywhere from an hour before its due time to some days after it.
\* ---------------------------------------------------------------------------

\* POST /api/renew/<book_id>: days between 1 and 7.
RenewalDays == {1, 7}

RenewForDays ==
  \E i \in DOMAIN borrows, days \in RenewalDays :
    /\ Commit(renew(DB, i, days, now).st)
    /\ UNCHANGED <<now, calls>>

NextRenew ==
  \/ RenewForDays
  \/ ReserveBook

SpecRenew == InitFee /\ [][NextRenew]_vars

\* ================================================================ properties
ReadyOf(res, book_id) ==
  {i \in DOMAIN res : res[i].book_id = book_id /\ res[i].status = "ready"}

WaitingIn(res, book_id) ==
  {i \in DOMAIN res : res[i].book_id = book_id /\ res[i].status = "waiting"}

ActiveLoansOf(brs, book_id) ==
  {i \in DOMAIN brs : /\ brs[i].book_id = book_id
                      /\ brs[i].status \in {"pending_pickup", "borrowed"}}

\* Rows of the book that leave an inventory-holding status in the step.
LoansReleased(book_id) ==
  {i \in DOMAIN borrows :
     /\ borrows[i].book_id = book_id
     /\ \/ borrows[i].status = "borrowed" /\ borrows'[i].status = "returned"
        \/ borrows[i].status = "pending_pickup" /\ borrows'[i].status = "cancelled"}

HoldsReleased(book_id) ==
  {i \in DOMAIN reservations :
     /\ reservations[i].book_id = book_id
     /\ reservations[i].status = "ready"
     /\ reservations'[i].status \in {"cancelled", "expired"}}

\* Waiting reservations of the book that the step marks ready.
Promoted(book_id) ==
  {i \in DOMAIN reservations :
     /\ reservations[i].book_id = book_id
     /\ reservations[i].status = "waiting"
     /\ reservations'[i].status = "ready"}

\* C1: a step that releases one copy of an item (a loan returned or cancelled,
\* a ready reservation cancelled or expired) either promotes one waiting
\* reservation of the item and leaves available unchanged, or promotes none
\* and raises available by one.
C1_ExactlyOneDisposition ==
  [][\A b \in Books :
       Cardinality(LoansReleased(b)) + Cardinality(HoldsReleased(b)) = 1
       => \/ /\ Cardinality(Promoted(b)) = 1
             /\ books'[b].available_copies = books[b].available_copies
          \/ /\ Promoted(b) = {}
             /\ books'[b].available_copies = books[b].available_copies + 1]_vars

\* C2: available + ready reservations + active loans never exceeds total.
C2_HiddenPoolAccounting ==
  \A b \in Books :
    books[b].available_copies + Cardinality(ReadyOf(reservations, b))
      + Cardinality(ActiveLoansOf(borrows, b)) <= books[b].total_copies

\* C3: 0 <= available_copies <= total_copies for every item.
C3_AvailableWithinBounds ==
  \A b \in Books :
    /\ 0 <= books[b].available_copies
    /\ books[b].available_copies <= books[b].total_copies

\* One loan and one reservation were ever made, the reservation was promoted
\* by the loan's release and then expired: two releases against one
\* decrement, so the upper clamp has acted.
C3_Witness ==
  /\ Len(borrows) = 1
  /\ Len(reservations) = 1
  /\ reservations[1].status = "expired"
  /\ books[reservations[1].book_id].available_copies
       = books[reservations[1].book_id].total_copies

\* C4: returning a borrowed loan of an item with a waiting reservation marks
\* the waiting reservation of lowest queue position ready and leaves the
\* item's available count as it was.
C4_ReturnCascades ==
  [][\A i \in DOMAIN borrows :
       LET b == borrows[i].book_id IN
       (/\ borrows[i].status = "borrowed"
        /\ borrows'[i].status = "returned"
        /\ has_active_reservations(DB, b))
       => /\ reservations'[get_next_in_queue(DB, b)].status = "ready"
          /\ books'[b].available_copies = books[b].available_copies]_vars

\* The requester passes the validations of Borrow.create other than availability.
PassesOtherValidations(u, b) ==
  /\ Cardinality(get_active_borrows(DB, u)) < MAX_BORROW_LIMIT
  /\ \A i \in get_active_borrows(DB, u) : borrows[i].book_id # b
  /\ users[u].fines = 0

\* The requester's ready reservations of the item whose hold has not run out.
LiveHolds(u, b) ==
  {i \in ReadyOf(reservations, b) :
     reservations[i].user_id = u /\ now <= reservations[i].hold_until}

\* C5: a requester holding a ready reservation (hold deadline not passed) who
\* passes the other validations gets a pending_pickup loan, also at
\* available = 0; available is not decremented and the reservation becomes
\* completed.
C5_PriorityClaim ==
  \A u \in Users, b \in Books :
    (LiveHolds(u, b) # {} /\ PassesOtherValidations(u, b))
    => LET r == Borrow_create(DB, u, b, now) IN
       /\ r.outcome = "ok"
       /\ Len(r.st.borrows) = Len(borrows) + 1
       /\ r.st.borrows[Len(r.st.borrows)].status = "pending_pickup"
       /\ r.st.books[b].available_copies = books[b].available_copies
       /\ \E i \in LiveHolds(u, b) : r.st.reservations[i].status = "completed"

\* C6: when the interleaved Borrow.create calls have all finished, every loan
\* granted has taken one copy from the public count (available = total minus
\* the loans made) and the item has no more active loans than copies.
C6_NoOverlending ==
  (\A u \in Users : calls[u].pc = "idle")
  => \A b \in Books :
       /\ books[b].available_copies
            = books[b].total_copies - Cardinality(ActiveLoansOf(borrows, b))
       /\ Cardinality(ActiveLoansOf(borrows, b)) <= books[b].total_copies

\* C7: the queue positions of an item's waiting reservations are exactly 1..N.
C7_QueuePositionsDense ==
  \A b \in Books :
    {reservations[i].queue_position : i \in WaitingIn(reservations, b)}
      = 1..Cardinality(WaitingIn(reservations, b))

\* C8: every cancel of a loan that is already cancelled (the method itself,
\* the staff reject route, approve_pickup's auto-cancel, the user's cancel
\* call, the sweep) fails or passes the loan by, and leaves the store - the
\* available counts and every reservation - as it was.
C8_CancelledLoanReleasesNothing ==
  \A i \in DOMAIN borrows :
    borrows[i].status = "cancelled"
    => /\ Borrow_cancel(DB, i, now).outcome = "fail"
       /\ Borrow_cancel(DB, i, now).st = DB
       /\ staff_reject_borrow(DB, i, now).outcome = "fail"
       /\ staff_reject_borrow(DB, i, now).st = DB
       /\ approve_pickup(DB, i, now).outcome = "fail"
       /\ approve_pickup(DB, i, now).st = DB
       /\ PendingBorrowOf(DB, borrows[i].user_id, borrows[i].book_id) # i
       /\ (PendingBorrowOf(DB, borrows[i].user_id, borrows[i].book_id) = 0
           => LET r == cancel_borrow_by_user(DB, borrows[i].user_id,
                                             borrows[i].book_id, now)
              IN r.outcome = "fail" /\ r.st = DB)
       /\ LET s == auto_cancel_expired_pickups(DB, now)
              b == borrows[i].book_id
              due == {j \in DOMAIN borrows :
                        /\ borrows[j].status = "pending_pickup"
                        /\ borrows[j].pending_until < now}
          IN /\ s.count = Cardinality(due)
             /\ s.st.borrows[i] = borrows[i]
             /\ ((\A j \in due : borrows[j].book_id # b)
                 => /\ s.st.books[b] = books[b]
                    /\ \A k \in DOMAIN reservations :
                         reservations[k].book_id = b
                         => s.st.reservations[k] = reservations[k])

\* A cancelled loan of an item whose available count a second release would raise.
C8_Witness ==
  \E i \in DOMAIN borrows :
    /\ borrows[i].status = "cancelled"
    /\ books[borrows[i].book_id].available_copies
         < books[borrows[i].book_id].total_copies

\* C9: when a ready reservation expires and the item has no waiting
\* reservation, the reservation is expired, nothing is promoted and the copy
\* is in the public count afterwards (available is raised by one, up to
\* total); with total = 1, no active loan and no other ready reservation the
\* item ends with available = 1, no ready reservation and no active loan.
C9_ExpiryReleasesToPublic ==
  [][\A i \in DOMAIN reservations :
       LET b == reservations[i].book_id IN
       (/\ reservations[i].status = "ready"
        /\ reservations'[i].status = "expired"
        /\ WaitingIn(reservations, b) = {})
       => /\ Promoted(b) = {}
          /\ books'[b].available_copies >= 1
          /\ books'[b].available_copies =
               (IF books[b].available_copies < books[b].total_copies
                THEN books[b].available_copies + 1
                ELSE books[b].total_copies)
          /\ (/\ books[b].total_copies = 1
              /\ ActiveLoansOf(borrows, b) = {}
              /\ ReadyOf(reservations, b) = {i})
             => /\ books'[b].available_copies = 1
                /\ ReadyOf(reservations', b) = {}
                /\ ActiveLoansOf(borrows', b) = {}]_vars

\* The scenario's end: total = 1, the one loan returned, the one reservation
\* expired unclaimed, the copy public.
C9_Witness ==
  /\ Len(borrows) = 1
  /\ Len(reservations) = 1
  /\ borrows[1].status = "returned"
  /\ reservations[1].status = "expired"
  /\ books[reservations[1].book_id].total_copies = 1
  /\ books[reservations[1].book_id].available_copies = 1

\* C10: renew of a borrowed loan fails while the item has a waiting
\* reservation, and leaves the loan (due date, renewal count) as it was.
C10_RenewBlockedByReservation ==
  \A i \in DOMAIN borrows, d \in ExtensionDays :
    (borrows[i].status = "borrowed" /\ has_active_reservations(DB, borrows[i].book_id))
    => LET r == renew(DB, i, d, now) IN
       /\ r.outcome = "fail"
       /\ r.st.borrows[i].due_date = borrows[i].due_date
       /\ r.st.borrows[i].renewed_count = borrows[i].renewed_count
       /\ r.st = DB

\* A borrowed loan that is within its renewal limit and not overdue, so that
\* only the waiting reservation stands between it and a renewal.
C10_Witness ==
  \E i \in DOMAIN borrows :
    /\ borrows[i].status = "borrowed"
    /\ borrows[i].renewed_count = 0
    /\ now <= borrows[i].due_date
    /\ has_active_reservations(DB, borrows[i].book_id)

\* C11: a loan's renewal count never exceeds the renewal limit (1); once a
\* loan has been renewed, every further renew of it fails and leaves its due
\* date, its renewal count and the rest of the store as they were.
C11_RenewalLimit ==
  \A i \in DOMAIN borrows :
    /\ borrows[i].renewed_count <= MAX_RENEWAL_COUNT
    /\ borrows[i].renewed_count >= MAX_RENEWAL_COUNT
       => \A d \in ExtensionDays :
            LET r == renew(DB, i, d, now) IN
            /\ r.outcome = "fail"
            /\ r.st.borrows[i].due_date = borrows[i].due_date
            /\ r.st.borrows[i].renewed_count = borrows[i].renewed_count
            /\ r.st = DB

\* A loan renewed once that is still borrowed, not overdue and not reserved:
\* only the limit stands between it and a second renewal.
C11_Witness ==
  \E i \in DOMAIN borrows :
    /\ borrows[i].status = "borrowed"
    /\ borrows[i].renewed_count = 1
    /\ now <= borrows[i].due_date
    /\ ~has_active_reservations(DB, borrows[i].book_id)

\* The active loans (pending_pickup or borrowed) of a requester on an item.
ActiveLoansOfPair(st, u, b) ==
  {i \in get_active_borrows(st, u) : st.borrows[i].book_id = b}

\* C12: each (requester, item) pair has at most one loan in status
\* pending_pickup or borrowed; a request for an item the requester already has
\* an active loan on is refused by every entry point and adds no loan.
C12_OneActiveLoanPerPair ==
  \A u \in Users, b \in Books :
    /\ Cardinality(ActiveLoansOfPair(DB, u, b)) <= 1
    /\ ActiveLoansOfPair(DB, u, b) # {}
       => /\ Borrow_create(DB, u, b, now).outcome = "fail"
          /\ Borrow_create(DB, u, b, now).st = DB
          /\ borrow_book(DB, u, b, now).st = DB
          /\ staff_process_borrow(DB, u, b, now).st = DB

\* A requester with an active loan on an item that still has a public copy,
\* no fine and room under the loan limit: only the duplicate check refuses.
C12_Witness ==
  \E u \in Users, b \in Books :
    /\ ActiveLoansOfPair(DB, u, b) # {}
    /\ books[b].available_copies > 0
    /\ users[u].fines = 0
    /\ ~users[u].is_locked

\* The waiting or ready reservations of a requester for an item.
ActiveReservationsOfPair(st, u, b) ==
  {i \in DOMAIN st.reservations :
     /\ st.reservations[i].user_id = u
     /\ st.reservations[i].book_id = b
     /\ st.reservations[i].status \in {"waiting", "ready"}}

\* C13 (amended): each (requester, item) pair has at most one reservation in
\* status waiting or ready; a reserve request (the reserve route, which calls
\* Reservation.create) by a requester who has one is rejected and leaves the
\* store as it was.
C13_OneActiveReservationPerPair ==
  \A u \in Users, b \in Books :
    /\ Cardinality(ActiveReservationsOfPair(DB, u, b)) <= 1
    /\ ActiveReservationsOfPair(DB, u, b) # {}
       => /\ reserve_book(DB, u, b, now).outcome = "fail"
          /\ reserve_book(DB, u, b, now).st = DB

\* C13 as stated of Reservation.create itself: the method, called for a
\* requester who has a waiting or ready reservation of the item, is rejected.
C13_CreateRejectsActive ==
  \A u \in Users, b \in Books :
    ActiveReservationsOfPair(DB, u, b) # {}
    => Reservation_create(DB, u, b, now).outcome = "fail"

\* A requester with a ready reservation of an item that has no public copy:
\* the availability check and the waiting-duplicate check of
\* Reservation.create both pass, so the route's own check decides.
C13_Witness ==
  \E u \in Users, b \in Books :
    /\ \E i \in ActiveReservationsOfPair(DB, u, b) :
         reservations[i].status = "ready"
    /\ books[b].available_copies = 0
    /\ Len(reservations) < MaxReservations

\* C14: a loan request by a requester whose fine balance is above zero fails
\* through every entry point: no loan is created, the item's available count
\* and borrow count are unchanged and no reservation changes.
C14_FinesBlockLoans ==
  \A u \in Users, b \in Books :
    users[u].fines > 0
    => /\ Borrow_create(DB, u, b, now).outcome = "fail"
       /\ Borrow_create(DB, u, b, now).st = DB
       /\ borrow_book(DB, u, b, now).outcome = "fail"
       /\ borrow_book(DB, u, b, now).st = DB
       /\ staff_process_borrow(DB, u, b, now).outcome = "fail"
       /\ staff_process_borrow(DB, u, b, now).st = DB

\* A requester with a fine, no active loan and an unlocked account, asking for
\* an item that has a public copy: only the fine check refuses.
C14_Witness ==
  \E u \in Users, b \in Books :
    /\ users[u].fines > 0
    /\ books[b].available_copies > 0
    /\ get_active_borrows(DB, u) = {}
    /\ ~users[u].is_locked
    /\ Len(borrows) < MaxBorrows

\* C15: each requester has at most MAX_BORROW_LIMIT loans in status
\* pending_pickup or borrowed; a request made at the limit fails through every
\* entry point and leaves the store as it was.
C15_BorrowLimit ==
  \A u \in DOMAIN users :
    /\ Cardinality(get_active_borrows(DB, u)) <= MAX_BORROW_LIMIT
    /\ Cardinality(get_active_borrows(DB, u)) >= MAX_BORROW_LIMIT
       => \A b \in DOMAIN books :
            /\ Borrow_create(DB, u, b, now).outcome = "fail"
            /\ Borrow_create(DB, u, b, now).st = DB
            /\ borrow_book(DB, u, b, now).outcome = "fail"
            /\ borrow_book(DB, u, b, now).st = DB
            /\ staff_process_borrow(DB, u, b, now).outcome = "fail"
            /\ staff_process_borrow(DB, u, b, now).st = DB

\* A requester at the limit, without a fine, and a title the requester has no
\* loan on with a public copy: only the limit check refuses.
C15_Witness ==
  \E u \in DOMAIN users, b \in DOMAIN books :
    /\ Cardinality(get_active_borrows(DB, u)) = MAX_BORROW_LIMIT
    /\ \E i \in get_active_borrows(DB, u) : borrows[i].status = "borrowed"
    /\ books[b].available_copies > 0
    /\ ActiveLoansOfPair(DB, u, b) = {}
    /\ users[u].fines = 0

\* The least k with k * b >= a, for a >= 0 and b > 0.
CeilDiv(a, b) ==
  CHOOSE k \in 0..(a \div b + 1) : k * b >= a /\ (k - 1) * b < a

\* The reference late fee for a delay of d whole minutes.
LateFeeReference(d) ==
  IF d <= 0 \/ d <= GRACE_PERIOD_MINUTES THEN 0
  ELSE LET e == d - GRACE_PERIOD_MINUTES IN
       IF e < MinutesPerDay THEN CeilDiv(e, MinutesPerHour) * LATE_FEE_HOURLY
       ELSE CeilDiv(e, MinutesPerDay) * LATE_FEE_DAILY

DamageFeeAsStated(condition, v) ==
  CASE condition = "good" -> 0
    [] condition = "minor" -> (20 * v) \div 100
    [] condition = "major" -> v + 15000
    [] condition = "lost" -> v + 20000
    [] OTHER -> 0

\* The damage fee with the codes the return form posts.
DamageFeeByCode(condition, v) ==
  CASE condition = "good" -> 0
    [] condition = "minor_damage" -> (20 * v) \div 100
    [] condition = "major_damage" -> v + 15000
    [] condition = "lost" -> v + 20000
    [] OTHER -> 0

\* C17 as stated: good -> 0, "minor" -> 20% of v, "major" -> v + 15000,
\* "lost" -> v + 20000, every other code -> 0; and the fee stored on a
\* returned loan is that fee of its condition for one of the posted values.
C17_DamageFeeAsStated ==
  /\ \A c \in PostedConditions, v \in PostedValues :
       calculate_damage_fee(c, v) = DamageFeeAsStated(c, v)
  /\ \A i \in DOMAIN borrows :
       borrows[i].status = "returned"
       => \E v \in PostedValues :
            borrows[i].damage_fee = DamageFeeAsStated(borrows[i].condition, v)

\* C17 (amended): good -> 0, "minor_damage" -> 20% of v, "major_damage" ->
\* v + 15000, "lost" -> v + 20000 (so 120000 for v = 100000), every other
\* code ("minor" and "major" among them) -> 0; and the fee stored on a
\* returned loan is that fee of its condition for one of the posted values.
C17_DamageFeeByCode ==
  /\ \A c \in PostedConditions, v \in PostedValues :
       calculate_damage_fee(c, v) = DamageFeeByCode(c, v)
  /\ calculate_damage_fee("lost", 100000) = 120000
  /\ \A i \in DOMAIN borrows :
       borrows[i].status = "returned"
       => \E v \in PostedValues :
            borrows[i].damage_fee = DamageFeeByCode(borrows[i].condition, v)

\* A loan returned as lost and charged the item value plus the lost surcharge.
C17_Witness ==
  \E i \in DOMAIN borrows :
    /\ borrows[i].status = "returned"
    /\ borrows[i].condition = "lost"
    /\ borrows[i].damage_fee = 120000

\* C18: the auto-cancel sweep is idempotent: run again right after a run, with
\* nothing in between, it cancels no loan and leaves the store - available
\* counts, loans, reservations - as the first run left it.
C18_SweepIdempotent ==
  LET first == auto_cancel_expired_pickups(DB, now)
      second == auto_cancel_expired_pickups(first.st, now)
  IN /\ second.count = 0
     /\ second.st = first.st

\* A pending loan past its pickup deadline on an item with a waiting
\* reservation: the first run cancels the loan and promotes the reservation.
C18_Witness ==
  \E i \in DOMAIN borrows :
    /\ borrows[i].status = "pending_pickup"
    /\ borrows[i].pending_until < now
    /\ has_active_reservations(DB, borrows[i].book_id)
    /\ auto_cancel_expired_pickups(DB, now).count = 1

\* Loans that the step moves from borrowed to returned with a fee to pay.
ChargedReturns ==
  {i \in DOMAIN borrows :
     /\ borrows[i].status = "borrowed"
     /\ borrows'[i].status = "returned"
     /\ borrows'[i].late_fee + borrows'[i].damage_fee > 0}

\* C19: a step that returns a loan with late fee + damage fee > 0 adds exactly
\* one fine record, for the loan and its requester, payment status unpaid;
\* every other step adds none, and no step removes one.
C19_PenaltyRecordOnReturn ==
  [][/\ Len(violations_history') = Len(violations_history) + Cardinality(ChargedReturns)
     /\ \A i \in ChargedReturns :
          LET rec == violations_history'[Len(violations_history')] IN
          /\ rec.borrow_id = i
          /\ rec.user_id = borrows[i].user_id
          /\ rec.payment_status = "unpaid"]_vars

\* The edges of the loan state machine.
LoanEdges ==
  {<<"pending_pickup", "borrowed">>, <<"pending_pickup", "cancelled">>,
   <<"borrowed", "returned">>}

\* C20: in every step each loan keeps its status or moves along one of the
\* edges pending_pickup -> borrowed, pending_pickup -> cancelled, borrowed ->
\* returned (so returned and cancelled are terminal); a new loan starts as
\* pending_pickup, no loan is removed, and the legacy approve changes no loan.
C20_LoanStatusEdges ==
  [][/\ Len(borrows') >= Len(borrows)
     /\ \A i \in DOMAIN borrows :
          \/ borrows'[i].status = borrows[i].status
          \/ <<borrows[i].status, borrows'[i].status>> \in LoanEdges
     /\ \A i \in DOMAIN borrows' \ DOMAIN borrows :
          borrows'[i].status = "pending_pickup"
     /\ \A i \in DOMAIN borrows :
          /\ approve(DB, i).outcome = "fail"
          /\ approve(DB, i).st = DB]_vars

\* Both terminal statuses have been reached: one loan returned, one cancelled.
C20_Witness ==
  /\ \E i \in DOMAIN borrows : borrows[i].status = "returned"
  /\ \E i \in DOMAIN borrows : borrows[i].status = "cancelled"

\* The edges of the reservation state machine.
ReservationEdges ==
  {<<"waiting", "ready">>, <<"ready", "completed">>, <<"ready", "expired">>,
   <<"waiting", "cancelled">>, <<"ready", "cancelled">>}

\* Every reservation of store s keeps the status it has in the current store
\* or has moved along one edge.
AlongReservationEdges(s) ==
  \A i \in DOMAIN reservations :
    \/ s.reservations[i].status = reservations[i].status
    \/ <<reservations[i].status, s.reservations[i].status>> \in ReservationEdges

\* C21: in every step each reservation keeps its status or moves along one of
\* waiting -> ready, ready -> completed, ready -> expired, waiting ->
\* cancelled, ready -> cancelled (completed, expired and cancelled are
\* terminal); a new reservation starts waiting, none is removed, and each of
\* the four transitions, called on any reservation, respects the edges.
C21_ReservationStatusEdges ==
  [][/\ Len(reservations') >= Len(reservations)
     /\ AlongReservationEdges([reservations |-> reservations'])
     /\ \A i \in DOMAIN reservations' \ DOMAIN reservations :
          reservations'[i].status = "waiting"
     /\ \A i \in DOMAIN reservations :
          /\ AlongReservationEdges(mark_ready(DB, i, HOLD_HOURS, now).st)
          /\ AlongReservationEdges(Reservation_cancel(DB, i, now).st)
          /\ AlongReservationEdges(mark_expired(DB, i, now).st)
          /\ AlongReservationEdges(Reservation_complete(DB, i).st)]_vars

\* Two terminal statuses have been reached: one reservation expired, one
\* cancelled.
C21_Witness ==
  /\ \E i \in DOMAIN reservations : reservations[i].status = "expired"
  /\ \E i \in DOMAIN reservations : reservations[i].status = "cancelled"

\* A failure reported to the caller with a message, the store left as it is.
FailsCleanly(r) ==
  /\ r.outcome = "fail"
  /\ r.msg # ""
  /\ r.st = DB

\* C22: a transition called from a wrong source state - approve_pickup on a
\* loan that is not pending_pickup, return_book or renew on one that is not
\* borrowed, mark_ready on a reservation that is not waiting, mark_expired or
\* complete on one that is not ready, Reservation.cancel on a completed,
\* expired or cancelled one - returns a failure with a message, does not raise,
\* and leaves items, loans, reservations and balances unchanged.
C22_WrongStateFailsCleanly ==
  /\ \A i \in DOMAIN borrows :
       /\ borrows[i].status # "pending_pickup"
          => FailsCleanly(approve_pickup(DB, i, now))
       /\ borrows[i].status # "borrowed"
          => /\ \A c \in PostedConditions, v \in PostedValues :
                  FailsCleanly(return_book(DB, i, c, v, now))
             /\ \A d \in ExtensionDays : FailsCleanly(renew(DB, i, d, now))
  /\ \A i \in DOMAIN reservations :
       /\ reservations[i].status # "waiting"
          => FailsCleanly(mark_ready(DB, i, HOLD_HOURS, now))
       /\ reservations[i].status # "ready"
          => /\ FailsCleanly(mark_expired(DB, i, now))
             /\ FailsCleanly(Reservation_complete(DB, i))
       /\ reservations[i].status \in {"completed", "expired", "cancelled"}
          => FailsCleanly(Reservation_cancel(DB, i, now))

\* A pending loan, on which a return with a fee would otherwise charge the
\* requester, next to an expired reservation.
C22_Witness ==
  /\ \E i \in DOMAIN borrows : borrows[i].status = "pending_pickup"
  /\ \E i \in DOMAIN reservations : reservations[i].status = "expired"

\* C23: Book.update_available_copies loses no update. When two callers, each
\* holding its own Book object loaded from the same persisted count, apply
\* their changes d1 and d2 and nothing is clamped, the persisted count is the
\* old count + d1 + d2.
C23_NoLostUpdate ==
  \A b \in Books :
    LET callers == {u \in Users : calls[u].pc = "done" /\ calls[u].book_id = b} IN
    \A u1 \in callers : \A u2 \in callers \ {u1} :
      LET old == calls[u1].loaded
          d1 == calls[u1].change
          d2 == calls[u2].change IN
      (/\ callers = {u1, u2}
       /\ \A u \in Users : calls[u].pc # "loaded"
       /\ calls[u2].loaded = old
       /\ {old + d1, old + d2, old + d1 + d2} \subseteq 0..books[b].total_copies)
      => books[b].available_copies = old + d1 + d2

\* The threads whose release of a loan of the book has been committed.
Releasers(b) ==
  {u \in Users : /\ calls[u].pc \in {"find", "mark_ready", "done"}
                 /\ calls[u].released
                 /\ calls[u].self.book_id = b}

\* C24: two inventory-releasing transitions of one item that run concurrently
\* never both promote the same waiting reservation. With two or more waiting,
\* two distinct reservations end ready (none is left waiting unless both
\* releases promoted one); with exactly one waiting, one release is absorbed
\* by it and the other copy is in the public pool.
C24_DistinctPromotions ==
  \A b \in Books :
    \A u1 \in Releasers(b) : \A u2 \in Releasers(b) \ {u1} :
      (/\ calls[u1].borrow_id # calls[u2].borrow_id
       /\ calls[u1].pc = "done"
       /\ calls[u2].pc = "done")
      => /\ calls[u1].promoted # 0 => calls[u1].promoted # calls[u2].promoted
         /\ WaitingOf(DB, b) # {}
              => calls[u1].promoted # 0 /\ calls[u2].promoted # 0
         /\ (calls[u1].promoted # 0 /\ calls[u2].promoted = 0)
              => books[b].available_copies >= 1

\* The threads that released the copy of loan i.
ReleasedBy(i) ==
  {u \in Users : /\ calls[u].pc = "done"
                 /\ calls[u].borrow_id = i
                 /\ calls[u].released}

\* C25: when approve_pickup, Borrow.cancel and auto_cancel_expired_pickups run
\* interleaved on one pending_pickup loan, each on its own loaded copy of the
\* loan and with the clock allowed to pass the pickup deadline between steps,
\* the loan's copy is released at most once, and the loan is never in status
\* 'borrowed' after its copy has been released.
C25_PendingLoanSettledOnce ==
  \A i \in DOMAIN borrows :
    /\ Cardinality(ReleasedBy(i)) <= 1
    /\ ReleasedBy(i) # {} => borrows[i].status # "borrowed"

\* C26: a failure of the notification side effect inside mark_ready does not
\* undo the transition: the reservation is persisted as ready with its hold
\* deadline, and mark_ready reports success.
C26_NotificationFailureKeepsReady ==
  \A i \in DOMAIN reservations : \A fault \in NotificationFaults \ {"none"} :
    reservations[i].status = "waiting"
    => LET r == mark_ready_under(DB, i, HOLD_HOURS, now, fault) IN
       /\ r.outcome = "ok"
       /\ r.st.reservations[i].status = "ready"
       /\ r.st.reservations[i].hold_until = now + HOLD_HOURS * MinutesPerHour

\* C27: loan creation commits all or nothing. If a store failure occurs at a
\* step of Borrow.create after the loan insert, no committed state contains
\* the new pending_pickup loan without the decrement of available and the
\* increment of the loan-count statistic, and none contains the decrement or
\* the increment without the loan.
C27_CreateAllOrNothing ==
  [][\A b \in Books :
       LET inserted == /\ Len(borrows') = Len(borrows) + 1
                       /\ borrows'[Len(borrows')].book_id = b
           decremented ==
             books'[b].available_copies = books[b].available_copies - 1
           incremented == books'[b].borrow_count = books[b].borrow_count + 1
       IN /\ inserted => decremented /\ incremented
          /\ decremented \/ incremented => inserted]_vars

\* C28: a return whose total fee is positive adds the fee to the requester's
\* balance, adds one violation, and still completes: the loan is returned,
\* the disposition of the copy is performed (the next waiting reservation
\* becomes ready, or with none waiting the copy is added to available), and
\* the result is a success, not an exception.
C28_ChargedReturnCompletes ==
  \A i \in DOMAIN borrows : \A c \in Conditions, v \in BookValues :
    LET self == borrows[i]
        b == self.book_id
        fee == calculate_late_fee(self.due_date, now) + calculate_damage_fee(c, v)
        r == return_book(DB, i, c, v, now)
    IN (self.status = "borrowed" /\ fee > 0)
       => /\ r.outcome = "ok"
          /\ r.st.borrows[i].status = "returned"
          /\ r.st.users[self.user_id].fines = users[self.user_id].fines + fee
          /\ r.st.users[self.user_id].violations
               = users[self.user_id].violations + 1
          /\ IF has_active_reservations(DB, b)
             THEN r.st.reservations[get_next_in_queue(DB, b)].status = "ready"
             ELSE r.st.books[b].available_copies
                    = update_available_copies(books[b].available_copies,
                                              books[b].total_copies, 1)

\* C29: an item's available count is written only by
\* Book.update_available_copies. Every step that changes available is a
\* clamped adjustment by one copy up or down, as all callers of
\* update_available_copies make it; no other operation (Book.update_fields,
\* the staff book-edit route) sets the count directly.
C29_OnlyLedgerWritesAvailable ==
  [][\A b \in Books :
       books'[b].available_copies # books[b].available_copies
       => \E change \in {0 - 1, 1} :
            books'[b].available_copies
              = update_available_copies(books[b].available_copies,
                                        books[b].total_copies, change)]_vars

ExpiredPickups(st, t) ==
  {i \in DOMAIN st.borrows : /\ st.borrows[i].status = "pending_pickup"
                             /\ st.borrows[i].pending_until < t}

\* C31: after auto_cancel_expired_pickups no loan is pending_pickup with
\* pending_until < now. Every such loan has been cancelled with exactly one
\* inventory disposition each (per item, the reservations promoted plus the
\* copies added to available equal the loans cancelled), every other loan is
\* untouched, and the returned number is the number of loans cancelled.
C31_SweepPostcondition ==
  LET r == auto_cancel_expired_pickups(DB, now)
      due == ExpiredPickups(DB, now)
  IN /\ ExpiredPickups(r.st, now) = {}
     /\ \A i \in due : r.st.borrows[i].status = "cancelled"
     /\ \A i \in DOMAIN borrows \ due : r.st.borrows[i] = borrows[i]
     /\ r.count = Cardinality(due)
     /\ \A b \in Books :
          LET cancelled == {i \in due : borrows[i].book_id = b}
              promoted == WaitingIn(reservations, b)
                            \cap ReadyOf(r.st.reservations, b)
          IN Cardinality(promoted)
               + (r.st.books[b].available_copies - books[b].available_copies)
             = Cardinality(cancelled)

C33_FirstInFirstOut ==
  \A a \in DOMAIN reservations : \A b \in DOMAIN reservations :
    (/\ a < b
     /\ reservations[a].book_id = reservations[b].book_id
     /\ reservations[b].status \in {"ready", "completed", "expired"})
    => reservations[a].status # "waiting"

\* Two reservations of one item, both promoted, the earlier one first (its
\* hold ends no later).
C33_Witness ==
  \E a \in DOMAIN reservations : \E b \in DOMAIN reservations :
    /\ a < b
    /\ reservations[a].book_id = reservations[b].book_id
    /\ reservations[a].status \in {"ready", "expired"}
    /\ reservations[b].status = "ready"

\* The call changed the status of reservation i to the given one, of no
\* other reservation, and no item's available count.
OnlyStatusOf(r, i, status) ==
  /\ r.outcome = "ok"
  /\ r.st.reservations[i].status = status
  /\ \A j \in DOMAIN reservations \ {i} :
       r.st.reservations[j].status = reservations[j].status
  /\ DOMAIN r.st.reservations = DOMAIN reservations
  /\ \A b \in Books :
       r.st.books[b].available_copies = books[b].available_copies

\* C34: mark_ready and Reservation.complete leave the item's available count
\* unchanged, and each changes the status of exactly one reservation, the
\* one it is called on (to ready, respectively completed).
C34_HoldMethodsFrame ==
  \A i \in DOMAIN reservations :
    /\ reservations[i].status = "waiting"
       => OnlyStatusOf(mark_ready(DB, i, HOLD_HOURS, now), i, "ready")
    /\ reservations[i].status = "ready"
       => OnlyStatusOf(Reservation_complete(DB, i), i, "completed")

\* A completed reservation next to a ready one of the same item, whose
\* available count is zero.
C34_Witness ==
  \E i \in DOMAIN reservations : \E j \in DOMAIN reservations :
    /\ reservations[i].status = "completed"
    /\ reservations[j].status = "ready"
    /\ reservations[i].book_id = reservations[j].book_id
    /\ books[reservations[i].book_id].available_copies = 0

\* C35: Borrow.renew succeeds only when now <= the loan's due timestamp. On
\* success the due timestamp increases by exactly extension_days and the
\* renewal count by exactly one, while the loan's status, the item's
\* available count and all reservations (and the rest of the store) are
\* unchanged.
C35_RenewFrame ==
  \A i \in DOMAIN borrows : \A days \in RenewalDays :
    LET r == renew(DB, i, days, now) IN
    r.outcome = "ok"
    => /\ now <= borrows[i].due_date
       /\ r.st.borrows[i].due_date = borrows[i].due_date + days * MinutesPerDay
       /\ r.st.borrows[i].renewed_count = borrows[i].renewed_count + 1
       /\ r.st.borrows[i].status = borrows[i].status
       /\ r.st.books = books
       /\ r.st.reservations = reservations
       /\ r.st = [DB EXCEPT !.borrows[i].due_date = r.st.borrows[i].due_date,
                            !.borrows[i].renewed_count = r.st.borrows[i].renewed_count]

\* A loan renewed exactly at its original due time, for one day.
C35_Witness ==
  \E i \in DOMAIN borrows :
    /\ borrows[i].status = "borrowed"
    /\ borrows[i].renewed_count = 1
    /\ now = BORROW_DURATION_DAYS * MinutesPerDay
    /\ borrows[i].due_date = now + MinutesPerDay

Min(x, y) == IF x <= y THEN x ELSE y

\* The promotion arithmetic of update_fields for a raise to target_copies:
\* min(w, target - c) reservations promoted, lowest queue positions first,
\* and target less the promoted stored as available.
AbsorbsInQueueOrder(b, target_copies) ==
  LET r == update_fields(DB, b, target_copies, now)
      c == books[b].available_copies
      w == Cardinality(WaitingIn(reservations, b))
      a == Min(w, target_copies - c)
      promoted == WaitingIn(reservations, b) \cap ReadyOf(r.st.reservations, b)
  IN /\ r.outcome = "ok"
     /\ Cardinality(promoted) = a
     /\ \A p \in promoted : \A q \in WaitingIn(r.st.reservations, b) :
          reservations[p].queue_position < reservations[q].queue_position
     /\ r.st.books[b].available_copies = target_copies - a

\* C36: when Book.update_fields raises an item's available count from c to a
\* target t > c while w reservations are waiting, a = min(w, t - c)
\* reservations are promoted to ready in queue order and the stored count
\* becomes t - a; the result satisfies 0 <= available <= total and
\* available + ready reservations + active loans <= total.
C36_UpdateFieldsPromotion ==
  \A b \in Books : \A target_copies \in EditCopies :
    target_copies > books[b].available_copies
    => LET st == update_fields(DB, b, target_copies, now).st IN
       /\ AbsorbsInQueueOrder(b, target_copies)
       /\ st.books[b].available_copies >= 0
       /\ st.books[b].available_copies <= st.books[b].total_copies
       /\ st.books[b].available_copies
            + Cardinality(ReadyOf(st.reservations, b))
            + Cardinality(ActiveLoansOf(st.borrows, b))
          <= st.books[b].total_copies

\* C37: in every reachable state an item that has at least one waiting
\* reservation has available = 0.
C37_WaitingMeansNoneAvailable ==
  \A b \in Books :
    WaitingIn(reservations, b) # {} => books[b].available_copies = 0

\* C38: the late fee is monotone in lateness. For a fixed due time the fee
\* never drops from one whole minute of delay to the next (so for delays
\* d1 <= d2 the fee of d1 is at most the fee of d2), also across the boundary
\* between the hourly tier and the daily tier.
C38_LateFeeMonotone ==
  \A i \in DOMAIN borrows :
    calculate_late_fee(borrows[i].due_date, now)
      <= calculate_late_fee(borrows[i].due_date, now + 1)

\* C38, amended: the late fee is monotone within each tier. The fee does not
\* drop from one minute of delay to the next, except at the step into the
\* daily tier, where the effective delay reaches 24 hours.
C38_LateFeeMonotoneInTier ==
  \A i \in DOMAIN borrows :
    (now + 1) - borrows[i].due_date - GRACE_PERIOD_MINUTES # MinutesPerDay
    => calculate_late_fee(borrows[i].due_date, now)
         <= calculate_late_fee(borrows[i].due_date, now + 1)

\* A loan returned at an effective delay of exactly 24 hours and charged one
\* daily rate, less than the 24 hourly rates of a minute earlier.
C38_Witness ==
  \E i \in DOMAIN borrows :
    /\ borrows[i].status = "returned"
    /\ now - borrows[i].due_date = GRACE_PERIOD_MINUTES + MinutesPerDay
    /\ borrows[i].late_fee = LATE_FEE_DAILY
    /\ calculate_late_fee(borrows[i].due_date, now - 1) = 24 * LATE_FEE_HOURLY

\* --------------------------------------------------------- locked accounts
\* User.lock and User.unlock: the is_locked column, committed.
lock(st, user_id) == [st EXCEPT !.users[user_id].is_locked = TRUE]

unlock(st, user_id) == [st EXCEPT !.users[user_id].is_locked = FALSE]

\* Admin.lock_user and Admin.unlock_user on a member account.
lock_user(st, user_id) ==
  IF user_id \notin DOMAIN st.users THEN Fail(st, "User not found")
  ELSE Ok(lock(st, user_id), "User has been locked")

unlock_user(st, user_id) ==
  IF user_id \notin DOMAIN st.users THEN Fail(st, "User not found")
  ELSE Ok(unlock(st, user_id), "User has been unlocked")

LockUser ==
  \E u \in Users :
    /\ Commit(lock_user(DB, u).st)
    /\ UNCHANGED <<now, calls>>

UnlockUser ==
  \E u \in Users :
    /\ Commit(unlock_user(DB, u).st)
    /\ UNCHANGED <<now, calls>>

\* The entry points that create loans, with the administrator locking and
\* unlocking accounts and the desk rejecting requests.
NextLock ==
  \/ LockUser
  \/ UnlockUser
  \/ BorrowBook
  \/ ApiBorrowBook
  \/ StaffProcessBorrow
  \/ StaffRejectBorrow

SpecLock == Init /\ [][NextLock]_vars

\* The loans a step adds for an account that is locked before the step.
LoansGrantedToLocked ==
  {i \in DOMAIN borrows' \ DOMAIN borrows : users[borrows'[i].user_id].is_locked}

\* C39: a requester whose account is locked is never granted a new loan,
\* through any entry point that creates loans: no step adds a loan row for
\* an account that is locked when the step is taken.
C39_LockedNeverBorrows == [][LoansGrantedToLocked = {}]_vars

\* C39, the part that holds: Borrow.borrow_book refuses a locked account and
\* leaves the store as it was.
C39_BorrowBookRefusesLocked ==
  \A u \in Users, b \in Books :
    users[u].is_locked
    => LET r == borrow_book(DB, u, b, now) IN r.outcome = "fail" /\ r.st = DB

\* ---------------------------------------------------------------------------
\* Giving up a held copy with a notification sink that may fail while the
\* copy is cascaded to the next waiting reservation.
\* ---------------------------------------------------------------------------

\* The cascade of Reservation.cancel and mark_expired under a fault. `st` is
\* the committed store and `s1` the store with the caller's UPDATE of its own
\* status, not yet committed. A failed mark_ready has rolled back whatever
\* was not committed, the caller's UPDATE included, before the fallback
\* book.update_available_copies(1) writes and commits.
ReleaseHeldCopyUnder(st, s1, book_id, t, fault) ==
  LET next_reservation == get_next_in_queue(s1, book_id) IN
  IF next_reservation # 0
  THEN LET r == mark_ready_under(s1, next_reservation, HOLD_HOURS, t, fault) IN
       CASE r.outcome = "ok" -> r.st
         [] r.outcome # "ok" /\ fault = "insert" -> AdjustAvailable(st, book_id, 1)
         [] OTHER -> AdjustAvailable(r.st, book_id, 1)
  ELSE AdjustAvailable(s1, book_id, 1)

Reservation_cancel_under(st, i, t, fault) ==
  LET self == st.reservations[i] IN
  IF self.status \notin {"waiting", "ready"}
  THEN Fail(st, "Only waiting or ready reservations can be cancelled")
  ELSE LET s1 == [st EXCEPT !.reservations[i].status = "cancelled"] IN
       IF self.status = "ready"
       THEN Ok(ReleaseHeldCopyUnder(st, s1, self.book_id, t, fault),
               "Reservation cancelled successfully")
       ELSE Reservation_cancel(st, i, t)

mark_expired_under(st, i, t, fault) ==
  LET self == st.reservations[i] IN
  IF self.status # "ready"
  THEN Fail(st, "Only ready reservations can expire")
  ELSE Ok(ReleaseHeldCopyUnder(st, [st EXCEPT !.reservations[i].status = "expired"],
                               self.book_id, t, fault),
          "Reservation marked as expired")

\* POST /user/reservation/cancel/<id>
CancelUnderFault ==
  \E i \in DOMAIN reservations, fault \in NotificationFaults :
    /\ Commit(Reservation_cancel_under(DB, i, now, fault).st)
    /\ UNCHANGED <<now, calls>>

\* Reservation.mark_expired on a ready reservation.
ExpireUnderFault ==
  \E i \in DOMAIN reservations, fault \in NotificationFaults :
    /\ reservations[i].status = "ready"
    /\ Commit(mark_expired_under(DB, i, now, fault).st)
    /\ UNCHANGED <<now, calls>>

NextHoldFault ==
  \/ BorrowBook
  \/ StaffRejectBorrow
  \/ ReserveBook
  \/ CancelUnderFault
  \/ ExpireUnderFault
  \/ Tick

SpecHoldFault == Init /\ [][NextHoldFault]_vars

\* C40: whenever Reservation.cancel or mark_expired on a ready reservation
\* returns success, the stored status of that reservation is 'cancelled'
\* respectively 'expired', also when promoting the next waiting reservation
\* fails and the copy is released to the public pool: the store never keeps
\* the reservation 'ready' after its copy was added to available.
C40_ReleasePersistsStatus ==
  \A i \in DOMAIN reservations : \A fault \in NotificationFaults :
    reservations[i].status = "ready"
    => LET c == Reservation_cancel_under(DB, i, now, fault)
           e == mark_expired_under(DB, i, now, fault)
       IN /\ c.outcome = "ok" => c.st.reservations[i].status = "cancelled"
          /\ e.outcome = "ok" => e.st.reservations[i].status = "expired"

====
